---- MODULE Spec2Model ----
(***************************************************************************)
(* A model of mdbook-typst-math: the document rewriter of src/lib.rs       *)
(* (scan of the markdown events, reverse splice of the rendered            *)
(* fragments, traversal of the book), the driver of src/main.rs and the    *)
(* package cache of src/compiler.rs.                                       *)
(*                                                                         *)
(* Text is a sequence of units.  A unit is one byte ("a", " ", "\n") or    *)
(* an indivisible run of bytes ("~~~", a language tag, an HTML tag); every *)
(* span the tokenizer reports falls on unit boundaries, so offsets are     *)
(* counted in units.  A Rust range a..b over a text t is the units         *)
(* t[a+1] .. t[b] of the 1-based TLA+ sequence.                            *)
(***************************************************************************)
EXTENDS Integers, Sequences, FiniteSets, TLC

(***************************************************************************)
(* Bounds of the model.                                                    *)
(***************************************************************************)
\* segments (runs of text, math, code blocks) of a chapter's text
MaxSegs == 3
\* items of a book
MaxItems == 3
\* calls of Compiler::package in one run
MaxCalls == 4
\* threads that share one Compiler
MaxThreads == 2
\* warnings, and errors, of one compilation
MaxDiags == 2
\* half days the system clock advances while the model runs
MaxClock == 3
\* queries of today one compilation makes
MaxAsks == 3

(***************************************************************************)
(* Option<T>, Result<T, E> and the string functions of the standard        *)
(* library the code calls.                                                 *)
(***************************************************************************)
None == <<>>
Some(v) == <<v>>
unwrap_or(o, d) == IF o = None THEN d ELSE o[1]

Ok(v) == [ok |-> TRUE, val |-> v]
Err(e) == [ok |-> FALSE, val |-> e]

Range(a, b) == [start |-> a, end |-> b]

Min(S) == CHOOSE x \in S : \A y \in S : x <= y
Max(S) == CHOOSE x \in S : \A y \in S : x >= y

\* char::is_whitespace on the units of the model
IsWhitespace(c) == c \in {" ", "\n", "\t"}

\* str::trim: the text without its leading and trailing whitespace
trim(s) ==
    LET keep == {i \in 1..Len(s) : ~IsWhitespace(s[i])}
    IN  IF keep = {} THEN <<>> ELSE SubSeq(s, Min(keep), Max(keep))

\* str::lines().count(): the lines are ended by "\n"; a last line without
\* its "\n" counts, an empty rest after the last "\n" does not
lines_count(s) ==
    Cardinality({i \in 1..Len(s) : s[i] = "\n"})
    + (IF Len(s) > 0 /\ s[Len(s)] # "\n" THEN 1 ELSE 0)

\* &t[a..b]: the slice, or a panic when the range is out of bounds
InBounds(t, a, b) == a <= b /\ b <= Len(t)
Slice(t, a, b) == SubSeq(t, a + 1, b)

(***************************************************************************)
(* TypstProcessorOptions.                                                  *)
(***************************************************************************)
DefaultPreamble == <<"#set page(width: auto, height: auto, margin: 0.5em, fill: none)">>
DefaultCodeTag == "typst,render"

\* the configurations of book.toml the model draws from
PreambleChoices == {None, Some(<<"#let i = 1", "\n", "#set text(red)">>)}
DisplayPreambleChoices == {None, Some(<<"#set text(blue)">>)}

TypstProcessorOptions ==
    [ preamble : {DefaultPreamble},
      inline_preamble : PreambleChoices,
      display_preamble : DisplayPreambleChoices,
      color_mode : {"Auto", "Static"},
      code_tag : {DefaultCodeTag},
      enable_math : BOOLEAN,
      enable_code : BOOLEAN ]

(***************************************************************************)
(* The markdown tokenizer (pulldown-cmark, an external collaborator): a    *)
(* chapter text is a sequence of segments, and the tokenizer reports the   *)
(* events of each segment with their spans in the text.                    *)
(***************************************************************************)
Event(tag, text, lang, span) == [tag |-> tag, text |-> text, lang |-> lang, span |-> span]

\* the source text of a fenced code block tagged lang
FencedSrc(lang) == <<"~~~", lang, "\n", " ", "y", " ", "z", "\n", "\n", "~~~", "\n">>

\* a segment: its source text and the events of it, spans relative to its start
SegText == [src |-> <<"a">>,
            evs |-> <<Event("Text", <<"a">>, "", Range(0, 1))>>]
SegBreak == [src |-> <<"\n">>,
             evs |-> <<Event("SoftBreak", <<>>, "", Range(0, 1))>>]
SegInline == [src |-> <<"$", "x", "$">>,
              evs |-> <<Event("InlineMath", <<"x">>, "", Range(0, 3))>>]
SegDisplay == [src |-> <<"$$", " ", "x", "\n", "$$">>,
               evs |-> <<Event("DisplayMath", <<" ", "x", "\n">>, "", Range(0, 5))>>]
SegFenced(lang) ==
    [src |-> FencedSrc(lang),
     evs |-> <<Event("StartFenced", <<>>, lang, Range(0, 11)),
               Event("Text", <<" ", "y", " ", "z", "\n">>, "", Range(3, 8)),
               Event("Text", <<"\n">>, "", Range(8, 9)),
               Event("EndCodeBlock", <<>>, "", Range(0, 11))>>]

Segments == {SegText, SegBreak, SegInline, SegDisplay,
             SegFenced(DefaultCodeTag), SegFenced("rust")}

RECURSIVE SrcOf(_)
SrcOf(segs) == IF segs = <<>> THEN <<>> ELSE segs[1].src \o SrcOf(Tail(segs))

Shift(e, off) == [e EXCEPT !.span = Range(e.span.start + off, e.span.end + off)]

RECURSIVE EventsOf(_, _)
EventsOf(segs, off) ==
    IF segs = <<>> THEN <<>>
    ELSE [i \in 1..Len(segs[1].evs) |-> Shift(segs[1].evs[i], off)]
         \o EventsOf(Tail(segs), off + Len(segs[1].src))

\* Parser::new_ext(&chapter.content, opts).into_offset_iter()
Parser(segs) == EventsOf(segs, 0)

Docs(n) == UNION {[1..k -> Segments] : k \in 0..n}

\* a Chapter of the book, with the events the tokenizer reports for its text
Chapter(name, path, segs) ==
    [name |-> name, source_path |-> path, content |-> SrcOf(segs), events |-> Parser(segs)]


(***************************************************************************)
(* The state of the program.                                               *)
(***************************************************************************)
VARIABLES
    opts,                  \* TypstProcessorOptions of the run
    chapter,               \* the chapter convert_typst is called with
    pc,                    \* where convert_typst is: "scan", "splice", "done", "panic"
    next_event,            \* events of the parser consumed so far
    in_typst_code_block,   \* lib.rs:310
    code_block_start,      \* lib.rs:311
    code_block_content,    \* lib.rs:312
    typst_blocks,          \* lib.rs:301
    content,               \* lib.rs:365, the working copy
    pending,               \* blocks typst_blocks.iter().rev() has not yielded yet
    renders,               \* the calls of compiler.render so far, in order
    result,                \* what convert_typst returned, None before it returns
    \* TypstProcessor::run and main
    book,                  \* the items of the book, in the order for_each_mut visits them
    book0,                 \* the book as parse_input read it
    item,                  \* items for_each_mut has visited
    res,                   \* lib.rs:264
    calls,                 \* the calls of convert_typst so far, in order
    run_result,            \* what run returned, None before it returns
    stdout,                \* the payloads written to standard output
    exit_code,             \* the exit code of the process, None while it runs
    command,               \* cli.command (main.rs:41)
    stdin,                 \* what parse_input will read from standard input, None once read
    \* Compiler::package
    disk,                  \* the package directories under the cache root
    disk0,                 \* the cache root as the run found it
    network,               \* the requests sent to the registry, in order
    files,                 \* Compiler::files
    resolves,              \* the calls of package so far, in order
    \* Compiler::get_file, Compiler::get_source and the World of a unit
    last,                  \* the last call of the file store or of the World, None before it
    served,                \* per operation and id, the first result that was Ok
    unit,                  \* the WrapSource of the compilation under way, None before it
    \* get_file and get_source called from several threads
    threads,               \* per thread: where its call is, and its locals
    inserts,               \* per id, the number of files.insert that stored an entry
    \* package called from several threads
    resolvers,             \* per thread: where its call of package is, and its locals
    \* Compiler::render and print_diagnostics
    compiled,              \* what typst::compile returned, None before it returns
    cursor,                \* diagnostics the loop of print_diagnostics has passed
    emitted,               \* the messages handed to error! and warn!, in order
    rendered,              \* what render returned, None before it returns
    \* the clock and World::today
    clock,                 \* the instant the system clock shows, in half days since the epoch
    todays                 \* the queries of today the unit answered: offset and answer, in order

convert_vars == <<opts, chapter, pc, next_event, in_typst_code_block, code_block_start,
                  code_block_content, typst_blocks, content, pending, renders, result>>
run_vars == <<book, book0, item, res, calls, run_result, stdout, exit_code, command, stdin>>
package_vars == <<disk, disk0, network, files, resolves>>
store_vars == <<last, served, unit>>
thread_vars == <<threads, inserts>>
resolver_vars == <<resolvers>>
report_vars == <<compiled, cursor, emitted, rendered>>
today_vars == <<clock, todays>>
env_vars == <<package_vars, store_vars, thread_vars, resolver_vars, report_vars,
              today_vars>>
vars == <<convert_vars, run_vars, env_vars>>

(***************************************************************************)
(* convert_typst, the scan (lib.rs:315-363).                               *)
(***************************************************************************)
\* the scanner's state as one value
ScanState(in_block, start, acc, blocks) ==
    [in_typst_code_block |-> in_block, code_block_start |-> start,
     code_block_content |-> acc, typst_blocks |-> blocks]

ScanInit == ScanState(FALSE, None, <<>>, <<>>)

\* MatchArm without the enable_math and enable_code guards
MatchArmIgnoringSwitches(st, e, o) ==
    IF e.tag = "InlineMath" THEN "InlineMath"
    ELSE IF e.tag = "DisplayMath" THEN "DisplayMath"
    ELSE IF e.tag = "StartFenced" THEN "StartFenced"
    ELSE IF e.tag = "Text" /\ st.in_typst_code_block THEN "Text"
    ELSE IF e.tag = "EndCodeBlock" /\ st.in_typst_code_block THEN "EndCodeBlock"
    ELSE "_"

\* the arm of the match that an event takes: the first whose pattern and guard hold
MatchArm(st, e, o) ==
    IF e.tag = "InlineMath" /\ o.enable_math THEN "InlineMath"
    ELSE IF e.tag = "DisplayMath" /\ o.enable_math THEN "DisplayMath"
    ELSE IF e.tag = "StartFenced" /\ o.enable_code THEN "StartFenced"
    ELSE IF e.tag = "Text" /\ st.in_typst_code_block /\ o.enable_code THEN "Text"
    ELSE IF e.tag = "EndCodeBlock" /\ st.in_typst_code_block /\ o.enable_code
         THEN "EndCodeBlock"
    ELSE "_"

Block(span, block, inline, preamble_lines) ==
    [span |-> span, block |-> block, inline |-> inline, preamble_lines |-> preamble_lines]

\* InlineMathArm with the general preamble, whatever inline_preamble is
InlineMathArmGeneralPreamble(st, e, o) ==
    [st EXCEPT !.typst_blocks =
        Append(@, Block(e.span, o.preamble \o <<"\n", "$">> \o e.text \o <<"$">>,
                        TRUE, lines_count(o.preamble)))]

\* Event::InlineMath(math_content) if opts.enable_math
InlineMathArm(st, e, o) ==
    LET preamble == unwrap_or(o.inline_preamble, o.preamble)
    IN  [st EXCEPT !.typst_blocks =
            Append(@, Block(e.span, preamble \o <<"\n", "$">> \o e.text \o <<"$">>,
                            TRUE, lines_count(preamble)))]

\* Event::DisplayMath(math_content) if opts.enable_math
DisplayMathArm(st, e, o) ==
    LET math_content == trim(e.text)
        preamble == unwrap_or(o.display_preamble, o.preamble)
    IN  [st EXCEPT !.typst_blocks =
            Append(@, Block(e.span,
                            preamble \o <<"\n", "$", " ">> \o math_content \o <<" ", "$">>,
                            FALSE, lines_count(preamble)))]

\* StartFencedArm without the comparison of the language tag
StartFencedArmAnyTag(st, e, o) ==
    [st EXCEPT !.in_typst_code_block = TRUE,
               !.code_block_start = Some(e.span),
               !.code_block_content = <<>>]

\* StartFencedArm that remembers a span from the start of the text on
StartFencedArmFromOrigin(st, e, o) ==
    IF e.lang = o.code_tag
    THEN [st EXCEPT !.in_typst_code_block = TRUE,
                    !.code_block_start = Some(Range(0, e.span.end)),
                    !.code_block_content = <<>>]
    ELSE st

\* Event::Start(Tag::CodeBlock(CodeBlockKind::Fenced(lang))) if opts.enable_code
StartFencedArm(st, e, o) ==
    IF e.lang = o.code_tag
    THEN [st EXCEPT !.in_typst_code_block = TRUE,
                    !.code_block_start = Some(e.span),
                    !.code_block_content = <<>>]
    ELSE st

\* TextArm that keeps the last text event only
TextArmOverwrite(st, e, o) == [st EXCEPT !.code_block_content = e.text]

\* Event::Text(text) if in_typst_code_block && opts.enable_code
TextArm(st, e, o) == [st EXCEPT !.code_block_content = @ \o e.text]

\* EndCodeBlockArm without in_typst_code_block = false
EndCodeBlockArmStayingInside(st, e, o) ==
    LET preamble == unwrap_or(o.display_preamble, o.preamble)
        pushed ==
            IF st.code_block_start # None
            THEN Append(st.typst_blocks,
                        Block(Range(st.code_block_start[1].start, e.span.end),
                              preamble \o <<"\n">> \o trim(st.code_block_content),
                              FALSE, lines_count(preamble)))
            ELSE st.typst_blocks
    IN  ScanState(TRUE, None, <<>>, pushed)

\* Event::End(TagEnd::CodeBlock) if in_typst_code_block && opts.enable_code
EndCodeBlockArm(st, e, o) ==
    LET preamble == unwrap_or(o.display_preamble, o.preamble)
        pushed ==
            IF st.code_block_start # None
            THEN Append(st.typst_blocks,
                        Block(Range(st.code_block_start[1].start, e.span.end),
                              preamble \o <<"\n">> \o trim(st.code_block_content),
                              FALSE, lines_count(preamble)))
            ELSE st.typst_blocks
    IN  ScanState(FALSE, None, <<>>, pushed)

\* one iteration of the loop over the parser's events
ScanStep(st, e, o) ==
    LET arm == MatchArm(st, e, o)
    IN  CASE arm = "InlineMath" -> InlineMathArm(st, e, o)
          [] arm = "DisplayMath" -> DisplayMathArm(st, e, o)
          [] arm = "StartFenced" -> StartFencedArm(st, e, o)
          [] arm = "Text" -> TextArm(st, e, o)
          [] arm = "EndCodeBlock" -> EndCodeBlockArm(st, e, o)
          [] OTHER -> st

\* the whole scan of a sequence of events, from the state st
RECURSIVE Scan(_, _, _)
Scan(st, events, o) ==
    IF events = <<>> THEN st ELSE Scan(ScanStep(st, Head(events), o), Tail(events), o)

(***************************************************************************)
(* convert_typst, the splice (lib.rs:365-403) and the renderer it calls.   *)
(***************************************************************************)
\* chapter name and source path, for the diagnostics (lib.rs:296-300)
Filename(ch) ==
    IF ch.source_path # None THEN <<ch.name, " ", ch.source_path[1]>> ELSE <<ch.name>>

BlackFill == "fill=\"#000000\""
BlackStroke == "stroke=\"#000000\""

\* what Compiler::render can return: the pages as SVG text, or a CompileError
RenderOutcomes ==
    {Ok(<<"<svg/>">>),
     Ok(<<"<svg>", BlackFill, "<path/>", BlackStroke, "</svg>">>),
     Err("Compilation")}

\* svg.replace(from, to)
replace(svg, from, to) == [i \in 1..Len(svg) |-> IF svg[i] = from THEN to ELSE svg[i]]

\* the colour mode transformation (lib.rs:386-389)
ApplyColorMode(svg, o) ==
    IF o.color_mode = "Auto"
    THEN replace(replace(svg, BlackFill, "fill=\"currentColor\""),
                 BlackStroke, "stroke=\"currentColor\"")
    ELSE svg

\* the container of a rendered artifact (lib.rs:391-400)
Wrap(inline, svg) ==
    IF inline
    THEN <<"<span class=\"typst-inline\">">> \o svg \o <<"</span>">>
    ELSE <<"<div class=\"typst-display\">">> \o svg \o <<"</div>">>

\* the line of the original markdown a block starts on (lib.rs:372)
MarkdownLine(ch, span) == lines_count(Slice(ch.content, 0, span.start)) + 1

\* the slices of lines 368, 369 and 372 are within bounds
SlicesInBounds(ch, text, span) ==
    /\ InBounds(text, 0, span.start)
    /\ InBounds(text, span.end, Len(text))
    /\ InBounds(ch.content, 0, span.start)

\* Spliced with the suffix taken from the start of the span, not from its end
SplicedKeepingFragment(text, b, svg, o) ==
    LET pre_content == Slice(text, 0, b.span.start)
        post_content == Slice(text, b.span.start, Len(text))
    IN  pre_content \o Wrap(b.inline, ApplyColorMode(svg, o)) \o post_content

\* the working copy after one block is rendered to svg (lib.rs:368-400)
Spliced(text, b, svg, o) ==
    LET pre_content == Slice(text, 0, b.span.start)
        post_content == Slice(text, b.span.end, Len(text))
    IN  pre_content \o Wrap(b.inline, ApplyColorMode(svg, o)) \o post_content

\* the error convert_typst returns (lib.rs:381-383)
RenderError(ch, e) == [chapter |-> Filename(ch), error |-> e]

\* NextBlock without the rev(): the blocks in document order
NextBlockForward(blocks, n) == blocks[Len(blocks) - n + 1]

\* the block that typst_blocks.iter().rev() yields when n blocks are pending
NextBlock(blocks, n) == blocks[n]

\* the arguments of one call of compiler.render (lib.rs:374-380)
RenderCall(ch, b, out) ==
    [block |-> b.block, filename |-> Some(Filename(ch)),
     markdown_line |-> MarkdownLine(ch, b.span), preamble_lines |-> b.preamble_lines,
     span |-> b.span, outcome |-> out]


\* a slice out of bounds: the thread panics, convert_typst does not return
Panic == Err([chapter |-> <<>>, error |-> "panic"])
Panicked(r) == ~r.ok /\ r.val.error = "panic"

\* what a run of convert_typst leaves: its return value and its render calls
Outcome(r, rs) == [result |-> r, renders |-> rs]

\* SpliceAll that logs a failed compilation and goes on with the next block
RECURSIVE SpliceAllSkippingFailures(_, _, _, _, _, _, _)
SpliceAllSkippingFailures(ch, text, blocks, n, outs, o, rs) ==
    IF n = 0 THEN Outcome(Ok(text), rs)
    ELSE LET b == NextBlock(blocks, n)
             done == Append(rs, RenderCall(ch, b, outs[n]))
         IN  IF ~SlicesInBounds(ch, text, b.span) THEN Outcome(Panic, rs)
             ELSE IF ~outs[n].ok
                  THEN SpliceAllSkippingFailures(ch, text, blocks, n - 1, outs, o, done)
             ELSE SpliceAllSkippingFailures(ch, Spliced(text, b, outs[n].val, o),
                                            blocks, n - 1, outs, o, done)

\* the whole splice loop and the return of convert_typst, from the working copy
\* text with n blocks pending and the render calls rs made; outs[i] is what
\* compiler.render returns for block i
RECURSIVE SpliceAll(_, _, _, _, _, _, _)
SpliceAll(ch, text, blocks, n, outs, o, rs) ==
    IF n = 0 THEN Outcome(Ok(text), rs)
    ELSE LET b == NextBlock(blocks, n)
             done == Append(rs, RenderCall(ch, b, outs[n]))
         IN  IF ~SlicesInBounds(ch, text, b.span) THEN Outcome(Panic, rs)
             ELSE IF ~outs[n].ok THEN Outcome(Err(RenderError(ch, outs[n].val)), done)
             ELSE SpliceAll(ch, Spliced(text, b, outs[n].val, o), blocks, n - 1, outs, o,
                            done)

\* convert_typst as a function of the chapter, the options and the renderer's answers
ConvertTypst(ch, o, outs) ==
    LET blocks == Scan(ScanInit, ch.events, o).typst_blocks
    IN  SpliceAll(ch, ch.content, blocks, Len(blocks), outs, o, <<>>)

(***************************************************************************)
(* The steps of convert_typst.                                             *)
(***************************************************************************)
scan_state == ScanState(in_typst_code_block, code_block_start, code_block_content,
                        typst_blocks)

\* the next event of the parser is taken by the arm named arm
Takes(arm) ==
    /\ pc = "scan"
    /\ next_event < Len(chapter.events)
    /\ MatchArm(scan_state, chapter.events[next_event + 1], opts) = arm

\* the scanner's variables after the next event
Scanned(st) ==
    /\ in_typst_code_block' = st.in_typst_code_block
    /\ code_block_start' = st.code_block_start
    /\ code_block_content' = st.code_block_content
    /\ typst_blocks' = st.typst_blocks
    /\ next_event' = next_event + 1
    /\ UNCHANGED <<opts, chapter, pc, content, pending, renders, result>>
    /\ UNCHANGED <<run_vars, env_vars>>

ScanInlineMath ==
    /\ Takes("InlineMath")
    /\ Scanned(ScanStep(scan_state, chapter.events[next_event + 1], opts))

ScanDisplayMath ==
    /\ Takes("DisplayMath")
    /\ Scanned(ScanStep(scan_state, chapter.events[next_event + 1], opts))

ScanStartFenced ==
    /\ Takes("StartFenced")
    /\ Scanned(ScanStep(scan_state, chapter.events[next_event + 1], opts))

ScanText ==
    /\ Takes("Text")
    /\ Scanned(ScanStep(scan_state, chapter.events[next_event + 1], opts))

ScanEndCodeBlock ==
    /\ Takes("EndCodeBlock")
    /\ Scanned(ScanStep(scan_state, chapter.events[next_event + 1], opts))

ScanOther ==
    /\ Takes("_")
    /\ Scanned(ScanStep(scan_state, chapter.events[next_event + 1], opts))

\* the parser is exhausted: the working copy is made (lib.rs:365)
ScanEnd ==
    /\ pc = "scan"
    /\ next_event = Len(chapter.events)
    /\ content' = chapter.content
    /\ pending' = Len(typst_blocks)
    /\ pc' = "splice"
    /\ UNCHANGED <<opts, chapter, next_event, in_typst_code_block, code_block_start,
                   code_block_content, typst_blocks, renders, result>>
    /\ UNCHANGED <<run_vars, env_vars>>

\* one iteration of the splice loop whose compilation succeeds (the slices of
\* lines 368-372 panic when out of bounds: the iteration needs them in bounds)
SpliceOk ==
    /\ pc = "splice"
    /\ pending > 0
    /\ LET b == NextBlock(typst_blocks, pending)
       IN  /\ SlicesInBounds(chapter, content, b.span)
           /\ \E out \in RenderOutcomes :
                /\ out.ok
                /\ renders' = Append(renders, RenderCall(chapter, b, out))
                /\ content' = Spliced(content, b, out.val, opts)
    /\ pending' = pending - 1
    /\ UNCHANGED <<opts, chapter, pc, next_event, in_typst_code_block, code_block_start,
                   code_block_content, typst_blocks, result>>
    /\ UNCHANGED <<run_vars, env_vars>>

\* one iteration of the splice loop whose compilation fails: the ? returns the error
SpliceErr ==
    /\ pc = "splice"
    /\ pending > 0
    /\ LET b == NextBlock(typst_blocks, pending)
       IN  /\ SlicesInBounds(chapter, content, b.span)
           /\ \E out \in RenderOutcomes :
                /\ ~out.ok
                /\ renders' = Append(renders, RenderCall(chapter, b, out))
                /\ result' = Some(Err(RenderError(chapter, out.val)))
    /\ pc' = "done"
    /\ UNCHANGED <<opts, chapter, next_event, in_typst_code_block, code_block_start,
                   code_block_content, typst_blocks, content, pending>>
    /\ UNCHANGED <<run_vars, env_vars>>

\* the loop is over: Ok(content) (lib.rs:403)
ConvertReturn ==
    /\ pc = "splice"
    /\ pending = 0
    /\ result' = Some(Ok(content))
    /\ pc' = "done"
    /\ UNCHANGED <<opts, chapter, next_event, in_typst_code_block, code_block_start,
                   code_block_content, typst_blocks, content, pending, renders>>
    /\ UNCHANGED <<run_vars, env_vars>>

\* the variables of run and main, where a specification leaves them alone
RunIdle ==
    /\ book = <<>>
    /\ book0 = <<>>
    /\ item = 0
    /\ res = None
    /\ calls = <<>>
    /\ run_result = None
    /\ stdout = <<>>
    /\ exit_code = None
    /\ command = None
    /\ stdin = None

\* the variables of the package cache, where a specification leaves them alone
PackageIdle ==
    /\ disk = <<>>
    /\ disk0 = <<>>
    /\ network = <<>>
    /\ files = <<>>
    /\ resolves = <<>>

\* the variables of the file store, where a specification leaves them alone
StoreIdle ==
    /\ last = None
    /\ served = <<>>
    /\ unit = None

\* the variables of the threads, where a specification leaves them alone
ThreadIdle ==
    /\ threads = <<>>
    /\ inserts = <<>>

ResolverIdle == resolvers = <<>>

\* the variables of render, where a specification leaves them alone
ReportIdle ==
    /\ compiled = None
    /\ cursor = 0
    /\ emitted = <<>>
    /\ rendered = None

\* the clock and the queries of today, where a specification leaves them alone
TodayIdle ==
    /\ clock = 0
    /\ todays = <<>>

EnvIdle ==
    /\ PackageIdle
    /\ StoreIdle
    /\ ThreadIdle
    /\ ResolverIdle
    /\ ReportIdle
    /\ TodayIdle

ConvertInit ==
    /\ opts \in TypstProcessorOptions
    /\ \E segs \in Docs(MaxSegs) : chapter = Chapter("Intro", Some("intro.md"), segs)
    /\ pc = "scan"
    /\ next_event = 0
    /\ in_typst_code_block = FALSE
    /\ code_block_start = None
    /\ code_block_content = <<>>
    /\ typst_blocks = <<>>
    /\ content = <<>>
    /\ pending = 0
    /\ renders = <<>>
    /\ result = None
    /\ RunIdle
    /\ EnvIdle

ConvertNext ==
    \/ ScanInlineMath
    \/ ScanDisplayMath
    \/ ScanStartFenced
    \/ ScanText
    \/ ScanEndCodeBlock
    \/ ScanOther
    \/ ScanEnd
    \/ SpliceOk
    \/ SpliceErr
    \/ ConvertReturn

SpecConvert == ConvertInit /\ [][ConvertNext]_vars


(***************************************************************************)
(* The fragments of a chapter as the specification describes them, read    *)
(* off the tokenizer's events without the scanner: an inline-math event, a *)
(* display-math event, a fenced block tagged code_tag (its opening event   *)
(* spans the block from fence to fence).                                   *)
(***************************************************************************)
IsFragmentEvent(e) ==
    \/ e.tag \in {"InlineMath", "DisplayMath"} /\ opts.enable_math
    \/ e.tag = "StartFenced" /\ e.lang = opts.code_tag /\ opts.enable_code

FragmentEventsOf(ch) == SelectSeq(ch.events, IsFragmentEvent)
FragmentEvents == FragmentEventsOf(chapter)

KindOf(e) ==
    CASE e.tag = "InlineMath" -> "inline"
      [] e.tag = "DisplayMath" -> "display"
      [] OTHER -> "embedded-code"

\* the container of a fragment of kind kind around the artifact r
Container(kind, r) ==
    IF kind = "inline"
    THEN <<"<span class=\"typst-inline\">">> \o r \o <<"</span>">>
    ELSE <<"<div class=\"typst-display\">">> \o r \o <<"</div>">>

\* the artifact spliced for fragment i of n: the SVG of its compilation, after
\* the colour mode is applied (the compilations run last fragment first)
Artifact(i, n) == ApplyColorMode(renders[n + 1 - i].outcome.val, opts)

\* gap_(i-1) + wrap(r_i) + gap_i + ... + gap_n, where gap_(i-1) starts at pos
RECURSIVE Assembled(_, _, _)
Assembled(fe, i, pos) ==
    IF i > Len(fe) THEN Slice(chapter.content, pos, Len(chapter.content))
    ELSE Slice(chapter.content, pos, fe[i].span.start)
         \o Container(KindOf(fe[i]), Artifact(i, Len(fe)))
         \o Assembled(fe, i + 1, fe[i].span.end)

\* C1: when every compilation succeeds, convert_typst returns the original
\* text outside the spans, byte for byte, with each fragment replaced by its
\* rendered artifact in the container of its kind, whatever the artifacts'
\* lengths.
C1_SpliceResult ==
    (pc = "done" /\ result # None /\ result[1].ok) =>
        /\ Len(renders) = Len(FragmentEvents)
        /\ result[1].val = Assembled(FragmentEvents, 1, 0)

\* three fragments, one of each kind, all rendered, by artifacts of two lengths
C1_Witness ==
    /\ pc = "done" /\ result # None /\ result[1].ok
    /\ Len(renders) = 3
    /\ {KindOf(FragmentEvents[i]) : i \in 1..3} = {"inline", "display", "embedded-code"}
    /\ \E i, j \in 1..3 : Len(renders[i].outcome.val) # Len(renders[j].outcome.val)
    /\ Len(result[1].val) # Len(chapter.content)

\* C2: at every iteration of the splice loop, for every fragment not yet
\* processed, the working copy agrees with the original text up to the end of
\* the fragment's span, and the span, as the scan computed it, is within the
\* working copy and selects the fragment's original text.
C2_PendingSpansValid ==
    pc = "splice" =>
        /\ Len(typst_blocks) = Len(FragmentEvents)
        /\ \A i \in 1..pending :
            LET span == typst_blocks[i].span
            IN  /\ span = FragmentEvents[i].span
                /\ span.start <= span.end
                /\ span.end <= Len(content)
                /\ Slice(content, 0, span.end) = Slice(chapter.content, 0, span.end)
                /\ Slice(content, span.start, span.end)
                     = Slice(chapter.content, span.start, span.end)

\* a later fragment is spliced, by an artifact of another length, and two are pending
C2_Witness ==
    /\ pc = "splice"
    /\ pending = 2
    /\ Len(typst_blocks) = 3
    /\ Len(content) # Len(chapter.content)


(***************************************************************************)
(* The scan, event by event.                                               *)
(***************************************************************************)
\* the event the scan consumes next, and a step that consumes it
NextEv == chapter.events[next_event + 1]
Consuming ==
    /\ pc = "scan"
    /\ next_event < Len(chapter.events)
    /\ next_event' = next_event + 1

\* the preambles, with the fallback to the general one
InlinePreambleOf ==
    IF opts.inline_preamble = None THEN opts.preamble ELSE opts.inline_preamble[1]
DisplayPreambleOf ==
    IF opts.display_preamble = None THEN opts.preamble ELSE opts.display_preamble[1]

\* a text without its leading, its trailing whitespace
RECURSIVE StripLeft(_)
StripLeft(t) ==
    IF t # <<>> /\ Head(t) \in {" ", "\n", "\t"} THEN StripLeft(Tail(t)) ELSE t
RECURSIVE StripRight(_)
StripRight(t) ==
    IF t # <<>> /\ t[Len(t)] \in {" ", "\n", "\t"}
    THEN StripRight(SubSeq(t, 1, Len(t) - 1)) ELSE t
Stripped(t) == StripRight(StripLeft(t))

\* the step appends exactly one fragment, with this span, body and inline flag
AppendsOne(span, body, inline) ==
    /\ Len(typst_blocks') = Len(typst_blocks) + 1
    /\ SubSeq(typst_blocks', 1, Len(typst_blocks)) = typst_blocks
    /\ typst_blocks'[Len(typst_blocks')].span = span
    /\ typst_blocks'[Len(typst_blocks')].block = body
    /\ typst_blocks'[Len(typst_blocks')].inline = inline

ScannerStateUnchanged ==
    UNCHANGED <<in_typst_code_block, code_block_start, code_block_content>>

\* C5: with math rendering enabled an inline-math event appends exactly one
\* inline fragment with the event's span and body inline preamble + newline +
\* '$' + math text + '$', and a display-math event appends exactly one display
\* fragment whose body is made of the display preamble and the trimmed math
\* text; the preambles fall back to the general preamble; with math rendering
\* disabled a math event appends nothing; a math event never changes the
\* scanner's state.
C5_MathEvents ==
    [][(Consuming /\ NextEv.tag \in {"InlineMath", "DisplayMath"}) =>
        /\ ScannerStateUnchanged
        /\ ~opts.enable_math => typst_blocks' = typst_blocks
        /\ (opts.enable_math /\ NextEv.tag = "InlineMath") =>
              AppendsOne(NextEv.span,
                         InlinePreambleOf \o <<"\n", "$">> \o NextEv.text \o <<"$">>,
                         TRUE)
        /\ (opts.enable_math /\ NextEv.tag = "DisplayMath") =>
              AppendsOne(NextEv.span,
                         DisplayPreambleOf \o <<"\n", "$", " ">>
                            \o Stripped(NextEv.text) \o <<" ", "$">>,
                         FALSE)]_vars

\* an inline and a display fragment are scanned, one preamble set, one falling back
C5_Witness ==
    /\ opts.enable_math
    /\ opts.inline_preamble # None
    /\ opts.display_preamble = None
    /\ Len(typst_blocks) = 2
    /\ typst_blocks[1].inline
    /\ ~typst_blocks[2].inline
    /\ chapter.events[next_event].tag = "DisplayMath"
    /\ Stripped(chapter.events[next_event].text) # chapter.events[next_event].text

\* the opening event of the code block that event k belongs to, 0 when it is
\* outside every fenced block
EnclosingFence(k) ==
    LET opens == {j \in 1..k :
                    /\ chapter.events[j].tag = "StartFenced"
                    /\ \A m \in j..(k - 1) : chapter.events[m].tag # "EndCodeBlock"}
    IN  IF opens = {} THEN 0 ELSE Max(opens)

\* C6: a fenced block whose tag differs from code_tag never produces a fragment
\* and never moves the scanner out of the scanning state; a block tagged
\* code_tag, with code rendering enabled, produces exactly one fragment, at
\* its closing event, spanning from the start of the opening event to the end
\* of the closing one; with code rendering disabled no block produces one.
C6_CodeTagGating ==
    [][(Consuming /\ EnclosingFence(next_event + 1) > 0) =>
        LET open == chapter.events[EnclosingFence(next_event + 1)]
        IN  /\ open.lang # opts.code_tag =>
                 /\ typst_blocks' = typst_blocks
                 /\ ~in_typst_code_block /\ ~in_typst_code_block'
            /\ ~opts.enable_code => typst_blocks' = typst_blocks
            /\ (open.lang = opts.code_tag /\ opts.enable_code) =>
                 IF NextEv.tag = "EndCodeBlock"
                 THEN /\ Len(typst_blocks') = Len(typst_blocks) + 1
                      /\ SubSeq(typst_blocks', 1, Len(typst_blocks)) = typst_blocks
                      /\ typst_blocks'[Len(typst_blocks')].span
                           = Range(open.span.start, NextEv.span.end)
                      /\ ~typst_blocks'[Len(typst_blocks')].inline
                 ELSE typst_blocks' = typst_blocks]_vars

\* a block tagged otherwise and a block tagged code_tag are scanned: one fragment
C6_Witness ==
    /\ pc = "splice"
    /\ opts.enable_code
    /\ Len(typst_blocks) = 1
    /\ \E j, k \in 1..Len(chapter.events) :
         /\ j < k
         /\ chapter.events[j].tag = "StartFenced"
         /\ chapter.events[j].lang # opts.code_tag
         /\ chapter.events[k].tag = "StartFenced"
         /\ chapter.events[k].lang = opts.code_tag
         /\ typst_blocks[1].span = chapter.events[k].span

\* the text events from event a to event b, concatenated in order
RECURSIVE TextsBetween(_, _)
TextsBetween(a, b) ==
    IF a > b THEN <<>>
    ELSE (IF chapter.events[a].tag = "Text" THEN chapter.events[a].text ELSE <<>>)
         \o TextsBetween(a + 1, b)

\* the closing event of the block that event j opens
ClosingOf(j) ==
    Min({k \in j..Len(chapter.events) : chapter.events[k].tag = "EndCodeBlock"})

\* the fragments made of a fenced block, each with the block's opening event
CodeFragments ==
    {<<i, j>> \in (1..Len(typst_blocks)) \X (1..Len(chapter.events)) :
        /\ chapter.events[j].tag = "StartFenced"
        /\ chapter.events[j].span = typst_blocks[i].span}

\* C7, as claimed: the body of an embedded-code fragment is the display
\* preamble followed by the block's text events, concatenated verbatim, no
\* character added or removed.
C7_VerbatimBody ==
    \A f \in CodeFragments :
        typst_blocks[f[1]].block
            = DisplayPreambleOf \o <<"\n">> \o TextsBetween(f[2], ClosingOf(f[2]))

\* C7, amended: the text events of the block are accumulated verbatim and in
\* order, and the body of the fragment is the display preamble, a newline and
\* the accumulated text without its leading and trailing whitespace.
C7_TrimmedBody ==
    /\ \A f \in CodeFragments :
         typst_blocks[f[1]].block
            = DisplayPreambleOf \o <<"\n">>
                \o Stripped(TextsBetween(f[2], ClosingOf(f[2])))
    /\ (pc = "scan" /\ in_typst_code_block) =>
         code_block_content = TextsBetween(EnclosingFence(next_event), next_event)

\* a fragment of a block whose text starts and ends with whitespace
C7_Witness ==
    \E f \in CodeFragments :
        LET text == TextsBetween(f[2], ClosingOf(f[2]))
        IN  /\ Stripped(text) # text
            /\ Len(Stripped(text)) > 1
            /\ Cardinality({k \in f[2]..ClosingOf(f[2]) : chapter.events[k].tag = "Text"}) = 2


(***************************************************************************)
(* TypstProcessor::run (lib.rs:263-279) and main (main.rs:45-70).  The     *)
(* book is the one parse_input read from standard input; its items are in  *)
(* the order in which for_each_mut visits them.  The payload written to    *)
(* standard output is written whole.                                       *)
(***************************************************************************)
ChapterItem(ch) == [kind |-> "Chapter", chapter |-> ch]
SeparatorItem == [kind |-> "Separator", chapter |-> None]

\* the chapters the books of the model are made of
BookChapters ==
    {Chapter("Intro", Some("intro.md"), <<SegText>>),
     Chapter("Math", Some("math.md"), <<SegInline, SegDisplay, SegFenced(DefaultCodeTag)>>),
     Chapter("Draft", None, <<SegText, SegInline>>)}

BookItems == {SeparatorItem} \cup {ChapterItem(ch) : ch \in BookChapters}

Books == UNION {[1..k -> BookItems] : k \in 0..MaxItems}

\* the options of the runs over a book: the defaults, math and code on or off
RunOptions ==
    {o \in TypstProcessorOptions :
        o.inline_preamble = None /\ o.display_preamble = None /\ o.color_mode = "Auto"}

\* the test of lib.rs:267 that never finds an error
AlreadyFailedNever(r) == FALSE

\* if let Some(Err(_)) = res (lib.rs:267)
AlreadyFailed(r) == r # None /\ ~r[1].ok

\* the closure of for_each_mut returns at once: an earlier chapter failed
RunSkip ==
    /\ exit_code = None /\ run_result = None /\ stdin = None
    /\ item < Len(book)
    /\ AlreadyFailed(res)
    /\ item' = item + 1
    /\ UNCHANGED <<opts, book, book0, res, calls, run_result, stdout, exit_code, command, stdin>>
    /\ UNCHANGED <<chapter, pc, next_event, in_typst_code_block, code_block_start,
                   code_block_content, typst_blocks, content, pending, renders, result>>
    /\ UNCHANGED env_vars

\* the closure on a chapter: convert_typst, and its text stored when it is Ok
RunChapter ==
    /\ exit_code = None /\ run_result = None /\ stdin = None
    /\ item < Len(book)
    /\ ~AlreadyFailed(res)
    /\ book[item + 1].kind = "Chapter"
    /\ LET ch == book[item + 1].chapter
           n == Len(Scan(ScanInit, ch.events, opts).typst_blocks)
       IN  \E outs \in [1..n -> RenderOutcomes] :
             LET out == ConvertTypst(ch, opts, outs)
                 r == out.result
             IN  /\ calls' = Append(calls, [item |-> item + 1, renders |-> out.renders,
                                            result |-> r])
                 /\ IF Panicked(r)
                    THEN /\ exit_code' = Some(101)
                         /\ UNCHANGED <<book, res>>
                    ELSE /\ res' = Some(IF r.ok THEN Ok(<<>>) ELSE r)
                         /\ book' = IF r.ok
                                    THEN [book EXCEPT ![item + 1].chapter.content = r.val]
                                    ELSE book
                         /\ UNCHANGED exit_code
    /\ item' = item + 1
    /\ UNCHANGED <<opts, book0, run_result, stdout, command, stdin>>
    /\ UNCHANGED <<chapter, pc, next_event, in_typst_code_block, code_block_start,
                   code_block_content, typst_blocks, content, pending, renders, result>>
    /\ UNCHANGED env_vars

\* the closure on an item that is no chapter
RunOther ==
    /\ exit_code = None /\ run_result = None /\ stdin = None
    /\ item < Len(book)
    /\ ~AlreadyFailed(res)
    /\ book[item + 1].kind # "Chapter"
    /\ item' = item + 1
    /\ UNCHANGED <<opts, book, book0, res, calls, run_result, stdout, exit_code, command, stdin>>
    /\ UNCHANGED <<chapter, pc, next_event, in_typst_code_block, code_block_start,
                   code_block_content, typst_blocks, content, pending, renders, result>>
    /\ UNCHANGED env_vars

\* res.unwrap_or(Ok(())).map(|_| book) (lib.rs:278)
RunReturn ==
    /\ exit_code = None /\ run_result = None /\ stdin = None
    /\ item = Len(book)
    /\ run_result' = Some(IF unwrap_or(res, Ok(<<>>)).ok THEN Ok(book) ELSE res[1])
    /\ UNCHANGED <<opts, book, book0, item, res, calls, stdout, exit_code, command, stdin>>
    /\ UNCHANGED <<chapter, pc, next_event, in_typst_code_block, code_block_start,
                   code_block_content, typst_blocks, content, pending, renders, result>>
    /\ UNCHANGED env_vars

\* handle_preprocess writes the processed book, main returns (main.rs:66-69)
MainWrite ==
    /\ exit_code = None /\ run_result # None
    /\ run_result[1].ok
    /\ stdout' = Append(stdout, run_result[1].val)
    /\ exit_code' = Some(0)
    /\ UNCHANGED <<opts, book, book0, item, res, calls, run_result, command, stdin>>
    /\ UNCHANGED <<chapter, pc, next_event, in_typst_code_block, code_block_start,
                   code_block_content, typst_blocks, content, pending, renders, result>>
    /\ UNCHANGED env_vars

\* the ? of main.rs:66 returns run's error, main logs it and exits (main.rs:49-52)
MainFail ==
    /\ exit_code = None /\ run_result # None
    /\ ~run_result[1].ok
    /\ exit_code' = Some(1)
    /\ UNCHANGED <<opts, book, book0, item, res, calls, run_result, stdout, command, stdin>>
    /\ UNCHANGED <<chapter, pc, next_event, in_typst_code_block, code_block_start,
                   code_block_content, typst_blocks, content, pending, renders, result>>
    /\ UNCHANGED env_vars

\* the variables of convert_typst's steps, where a specification leaves them alone
ConvertIdle ==
    /\ chapter = Chapter("", None, <<>>)
    /\ pc = "idle"
    /\ next_event = 0
    /\ in_typst_code_block = FALSE
    /\ code_block_start = None
    /\ code_block_content = <<>>
    /\ typst_blocks = <<>>
    /\ content = <<>>
    /\ pending = 0
    /\ renders = <<>>
    /\ result = None

RunInit ==
    /\ opts \in RunOptions
    /\ book \in Books
    /\ book0 = book
    /\ item = 0
    /\ res = None
    /\ calls = <<>>
    /\ run_result = None
    /\ stdout = <<>>
    /\ exit_code = None
    /\ command = None
    /\ stdin = None
    /\ ConvertIdle
    /\ EnvIdle

RunNext ==
    \/ RunSkip
    \/ RunChapter
    \/ RunOther
    \/ RunReturn
    \/ MainWrite
    \/ MainFail

SpecRun == RunInit /\ [][RunNext]_vars

(***************************************************************************)
(* main from the command line on (main.rs:41-70): the query of a renderer, *)
(* or the run over the book read from standard input.                      *)
(***************************************************************************)
\* the renderer names the query is made with
Renderers == {"html", "HTML", "markdown", ""}

\* Command::Supports { renderer }
Supports(renderer) == [renderer |-> renderer]

\* cli.command: the query of a renderer, or none
Commands == {None} \cup {Some(Supports(r)) : r \in Renderers}

\* what parse_input can return: the book, or the error of an input it cannot read
Inputs == {Ok(b) : b \in Books} \cup {Err("Json")}

\* supports_renderer that accepts every renderer
supports_renderer_any(renderer) == Ok(TRUE)

\* TypstProcessor::supports_renderer (lib.rs:281-283)
supports_renderer(renderer) == Ok(renderer = "html")

\* Some(Command::Supports { renderer }) => handle_supports (main.rs:46-48, 57-60)
HandleSupports ==
    /\ exit_code = None
    /\ command # None
    /\ LET r == supports_renderer(command[1].renderer)
           supported == IF r.ok THEN r.val ELSE FALSE
       IN  exit_code' = Some(IF supported THEN 0 ELSE 1)
    /\ UNCHANGED <<opts, book, book0, item, res, calls, run_result, stdout, command, stdin>>
    /\ UNCHANGED <<chapter, pc, next_event, in_typst_code_block, code_block_start,
                   code_block_content, typst_blocks, content, pending, renders, result>>
    /\ UNCHANGED env_vars

\* None => handle_preprocess: parse_input reads the book (main.rs:49, 64)
ParseInput ==
    /\ exit_code = None
    /\ command = None
    /\ stdin # None
    /\ stdin[1].ok
    /\ book' = stdin[1].val
    /\ book0' = book'
    /\ stdin' = None
    /\ UNCHANGED <<opts, item, res, calls, run_result, stdout, exit_code, command>>
    /\ UNCHANGED <<chapter, pc, next_event, in_typst_code_block, code_block_start,
                   code_block_content, typst_blocks, content, pending, renders, result>>
    /\ UNCHANGED env_vars

\* the ? of main.rs:64 returns the error of parse_input, main logs it and exits
\* (main.rs:49-52)
ParseInputFails ==
    /\ exit_code = None
    /\ command = None
    /\ stdin # None
    /\ ~stdin[1].ok
    /\ exit_code' = Some(1)
    /\ UNCHANGED <<opts, book, book0, item, res, calls, run_result, stdout, command, stdin>>
    /\ UNCHANGED <<chapter, pc, next_event, in_typst_code_block, code_block_start,
                   code_block_content, typst_blocks, content, pending, renders, result>>
    /\ UNCHANGED env_vars

MainInit ==
    /\ opts \in RunOptions
    /\ command \in Commands
    /\ \E input \in Inputs : stdin = Some(input)
    /\ book = <<>>
    /\ book0 = <<>>
    /\ item = 0
    /\ res = None
    /\ calls = <<>>
    /\ run_result = None
    /\ stdout = <<>>
    /\ exit_code = None
    /\ ConvertIdle
    /\ EnvIdle

MainNext ==
    \/ HandleSupports
    \/ ParseInput
    \/ ParseInputFails
    \/ RunSkip
    \/ RunChapter
    \/ RunOther
    \/ RunReturn
    \/ MainWrite
    \/ MainFail

SpecMain == MainInit /\ [][MainNext]_vars


(***************************************************************************)
(* Failures of a compilation, in convert_typst and in run.                 *)
(***************************************************************************)
\* the units of a text
Units(t) == {t[i] : i \in 1..Len(t)}

\* the call of convert_typst c failed: its last compilation returned an error
FailedCall(c) == c.renders # <<>> /\ ~c.renders[Len(c.renders)].outcome.ok

\* C3: the fragments of a chapter are compiled one at a time, last span first;
\* the first compilation that fails is the last one of the chapter:
\* convert_typst returns an error that names the chapter and its file, no
\* earlier fragment is compiled, and the chapter's content stays as it was.
C3_FirstFailureAborts ==
    \A n \in 1..Len(calls) :
        LET c == calls[n]
            ch == book0[c.item].chapter
            fe == FragmentEventsOf(ch)
        IN  /\ Len(c.renders) <= Len(fe)
            /\ \A k \in 1..Len(c.renders) :
                 /\ c.renders[k].span = fe[Len(fe) + 1 - k].span
                 /\ k < Len(c.renders) =>
                      /\ c.renders[k].outcome.ok
                      /\ c.renders[k + 1].span.end <= c.renders[k].span.start
            /\ IF FailedCall(c)
               THEN /\ ~c.result.ok
                    /\ ch.name \in Units(c.result.val.chapter)
                    /\ ch.source_path # None =>
                         ch.source_path[1] \in Units(c.result.val.chapter)
                    /\ book[c.item].chapter.content = ch.content
               ELSE /\ c.result.ok
                    /\ Len(c.renders) = Len(fe)

\* of three fragments the last is compiled, the second fails, the first is left
C3_Witness ==
    \E n \in 1..Len(calls) :
        /\ FailedCall(calls[n])
        /\ Len(calls[n].renders) = 2
        /\ Len(FragmentEventsOf(book0[calls[n].item].chapter)) = 3
        /\ book[calls[n].item].chapter.content = book0[calls[n].item].chapter.content
        /\ run_result # None

CacheRoot == "cache"

PackageSpecs ==
    {[namespace |-> "preview", name |-> "cetz", version |-> "0.2.0"],
     [namespace |-> "preview", name |-> "cetz", version |-> "0.3.0"]}

\* the options TypstProcessor::run builds from an empty configuration
DefaultOptions ==
    [preamble |-> DefaultPreamble, inline_preamble |-> None, display_preamble |-> None,
     color_mode |-> "Auto", code_tag |-> DefaultCodeTag,
     enable_math |-> TRUE, enable_code |-> TRUE]

\* self.cache.join(format!("{}/{}/{}", namespace, name, version))
PackagePath(root, p) == <<root, p.namespace, p.name, p.version>>

\* format!("https://packages.typst.org/{}/{}-{}.tar.gz", namespace, name, version)
PackageUrl(p) ==
    <<"https://packages.typst.org/", p.namespace, "/", p.name, "-", p.version, ".tar.gz">>

PackagePaths == {PackagePath(CacheRoot, p) : p \in PackageSpecs}

\* the bodies a response can carry: an archive, an archive with an entry that
\* cannot be unpacked, a gzip stream cut short, a page that is no gzip stream
Bodies == {"tar.gz", "tar.gz:bad-entry", "gz:truncated", "html"}

Answer(sent, status, transferred, body) ==
    [sent |-> sent, status |-> status, transferred |-> transferred, body |-> body]

\* what the registry can answer to reqwest::blocking::get and response.copy_to
NetworkAnswers ==
    {Answer(FALSE, 0, FALSE, "")}
    \cup {Answer(TRUE, 200, t, b) : t \in BOOLEAN, b \in Bodies}
    \cup {Answer(TRUE, 404, t, "html") : t \in BOOLEAN}

NetworkFailed(msg) == Err(<<"NetworkFailed", msg>>)
MalformedArchive(msg) == Err(<<"MalformedArchive", msg>>)

\* path.exists() that never finds the directory
ExistsNever(d, path) == FALSE

\* path.exists()
Exists(d, path) == d[path] # "absent"

\* GzDecoder: write_all, try_finish, finish (compiler.rs:156-178)
Decompress(body) ==
    CASE body = "html" -> Err("write_all")
      [] body = "gz:truncated" -> Err("try_finish")
      [] body = "tar.gz" -> Ok("tar")
      [] body = "tar.gz:bad-entry" -> Ok("tar:bad-entry")

\* archive.unpack that writes the entries elsewhere than under path
UnpackElsewhere(d, path, tar) == [disk |-> d, ok |-> tar = "tar"]

\* archive.unpack(&path): the directory is created, then the entries one by one
Unpack(d, path, tar) ==
    [disk |-> [d EXCEPT ![path] = IF tar = "tar" THEN "complete" ELSE "partial"],
     ok |-> tar = "tar"]

\* a removal that leaves the directory in place
remove_dir_all_skipped(d, path) == d

\* std::fs::remove_dir_all(&path).ok()
remove_dir_all(d, path) == [d EXCEPT ![path] = "absent"]

\* what a call of package leaves: the disk, the requests it sent, whether the
\* body reached the gzip decoder, its result
Resolved(d, reqs, decoded, r) ==
    [disk |-> d, requests |-> reqs, decoded |-> decoded, result |-> r]

\* Compiler::package on the disk d, the registry answering with answer
Package(d, root, p, answer) ==
    LET path == PackagePath(root, p)
        reqs == <<PackageUrl(p)>>
    IN  IF Exists(d, path) THEN Resolved(d, <<>>, FALSE, Ok(path))
        ELSE IF ~answer.sent
             THEN Resolved(d, reqs, FALSE, NetworkFailed("Failed to download package"))
        ELSE IF ~answer.transferred
             THEN Resolved(d, reqs, FALSE, NetworkFailed("Failed to save package"))
        ELSE LET decompressed == Decompress(answer.body)
             IN  IF ~decompressed.ok
                 THEN Resolved(d, reqs, TRUE,
                               MalformedArchive("Failed to decompress package"))
                 ELSE LET unpacked == Unpack(d, path, decompressed.val)
                      IN  IF ~unpacked.ok
                          THEN Resolved(remove_dir_all(unpacked.disk, path), reqs, TRUE,
                                        MalformedArchive("Failed to unpack package"))
                          ELSE Resolved(unpacked.disk, reqs, TRUE, Ok(path))

\* what the call saw of the transport: nothing when it sent no request, else
\* whether the request was answered, the status of the answer, and whether
\* the body arrived in full
Transport(reqs, answer) ==
    IF reqs = <<>> THEN None
    ELSE Some([sent |-> answer.sent, status |-> answer.status,
               transferred |-> answer.transferred])

\* one call of package with the answer of the registry, and its record
PackageCall(p, answer) ==
    LET r == Package(disk, CacheRoot, p, answer)
        path == PackagePath(CacheRoot, p)
    IN  /\ Len(resolves) < MaxCalls
        /\ disk' = r.disk
        /\ network' = network \o r.requests
        /\ resolves' = Append(resolves,
                              [package |-> p, before |-> disk[path], after |-> r.disk[path],
                               requests |-> Len(r.requests),
                               transport |-> Transport(r.requests, answer),
                               decoded |-> r.decoded, result |-> r.result])
        /\ UNCHANGED <<disk0, files>>
        /\ UNCHANGED <<convert_vars, run_vars>>
        /\ UNCHANGED <<store_vars, thread_vars, resolver_vars, report_vars, today_vars>>

\* the directory exists: the fast path (compiler.rs:129-131)
PackageCached ==
    \E p \in PackageSpecs, answer \in NetworkAnswers :
        /\ Exists(disk, PackagePath(CacheRoot, p))
        /\ PackageCall(p, answer)

\* the download fails (compiler.rs:139-154)
PackageNetworkFailed ==
    \E p \in PackageSpecs, answer \in NetworkAnswers :
        /\ ~Exists(disk, PackagePath(CacheRoot, p))
        /\ ~answer.sent \/ ~answer.transferred
        /\ PackageCall(p, answer)

\* the body is no gzip stream, or its archive cannot be unpacked (compiler.rs:156-188)
PackageMalformed ==
    \E p \in PackageSpecs, answer \in NetworkAnswers :
        /\ ~Exists(disk, PackagePath(CacheRoot, p))
        /\ answer.sent /\ answer.transferred
        /\ answer.body # "tar.gz"
        /\ PackageCall(p, answer)

\* the archive is downloaded and unpacked (compiler.rs:180-190)
PackageUnpacked ==
    \E p \in PackageSpecs, answer \in NetworkAnswers :
        /\ ~Exists(disk, PackagePath(CacheRoot, p))
        /\ answer.sent /\ answer.transferred
        /\ answer.body = "tar.gz"
        /\ PackageCall(p, answer)

PackageInit ==
    /\ disk \in [PackagePaths -> {"absent", "complete"}]
    /\ disk0 = disk
    /\ network = <<>>
    /\ files = <<>>
    /\ resolves = <<>>
    /\ opts = DefaultOptions
    /\ ConvertIdle
    /\ RunIdle
    /\ StoreIdle
    /\ ThreadIdle
    /\ ResolverIdle
    /\ ReportIdle
    /\ TodayIdle

PackageNext ==
    \/ PackageCached
    \/ PackageNetworkFailed
    \/ PackageMalformed
    \/ PackageUnpacked

SpecPackage == PackageInit /\ [][PackageNext]_vars


(***************************************************************************)
(* The package cache over a sequence of resolve calls.                     *)
(***************************************************************************)
\* cache_root/namespace/name/version
Directory(p) == <<CacheRoot, p.namespace, p.name, p.version>>

\* the call returned this directory
Returned(c, dir) == c.result.ok /\ c.result.val = dir

IsMalformedArchive(c) == ~c.result.ok /\ c.result.val[1] = "MalformedArchive"

\* calls j < k of the same reference with no call of it in between
Consecutive(j, k) ==
    /\ j < k
    /\ resolves[j].package = resolves[k].package
    /\ \A m \in (j + 1)..(k - 1) : resolves[m].package # resolves[j].package

Pairs == {jk \in (1..Len(resolves)) \X (1..Len(resolves)) : Consecutive(jk[1], jk[2])}

\* C8, as claimed: two consecutive resolve calls of a reference issue at most
\* one network fetch in total and both return the same directory.
C8_TwoCallsOneFetch ==
    \A jk \in Pairs :
        LET first == resolves[jk[1]]
            second == resolves[jk[2]]
        IN  /\ first.requests + second.requests <= 1
            /\ Returned(first, Directory(first.package))
            /\ Returned(second, Directory(first.package))

\* C8, amended: two consecutive resolve calls of a reference of which the
\* first returns Ok issue at most one network fetch in total and both return
\* the same directory; and once the directory of a reference exists, every
\* later resolve of it returns that directory without fetching.
C8_CachedOnceResolved ==
    /\ \A jk \in Pairs :
         LET first == resolves[jk[1]]
             second == resolves[jk[2]]
         IN  first.result.ok =>
               /\ first.requests + second.requests <= 1
               /\ Returned(first, Directory(first.package))
               /\ Returned(second, Directory(first.package))
    /\ \A k \in 1..Len(resolves) :
         LET c == resolves[k]
             existed ==
                \/ disk0[Directory(c.package)] # "absent"
                \/ \E j \in 1..(k - 1) :
                     /\ resolves[j].package = c.package
                     /\ resolves[j].after # "absent"
         IN  existed => (c.requests = 0 /\ Returned(c, Directory(c.package)))

\* a reference is fetched and unpacked, its next resolve is served from the disk
C8_Witness ==
    \E jk \in Pairs :
        /\ disk0[Directory(resolves[jk[1]].package)] = "absent"
        /\ resolves[jk[1]].requests = 1
        /\ resolves[jk[1]].result.ok
        /\ resolves[jk[2]].requests = 0
        /\ Returned(resolves[jk[2]], Directory(resolves[jk[1]].package))
        /\ jk[2] > jk[1] + 1

\* C9: when the package directory exists, resolve returns it, sends nothing to
\* the network and changes nothing on the disk and nothing in the file cache.
C9_FastPathPure ==
    [][(/\ Len(resolves') = Len(resolves) + 1
        /\ disk[Directory(resolves'[Len(resolves')].package)] # "absent")
       => (/\ Returned(resolves'[Len(resolves')],
                       Directory(resolves'[Len(resolves')].package))
           /\ disk' = disk
           /\ network' = network
           /\ files' = files)]_vars

\* a resolve served from the disk, after another reference was downloaded
C9_Witness ==
    /\ Len(resolves) >= 2
    /\ network # <<>>
    /\ resolves[Len(resolves)].before = "complete"
    /\ resolves[Len(resolves)].requests = 0
    /\ Returned(resolves[Len(resolves)], Directory(resolves[Len(resolves)].package))
    /\ \E q \in PackageSpecs : disk[Directory(q)] = "absent"

TransportError(c) ==
    /\ c.transport # None
    /\ \/ ~c.transport[1].sent
       \/ c.transport[1].status \notin 200..299
       \/ ~c.transport[1].transferred

IsNetworkFailed(c) == ~c.result.ok /\ c.result.val[1] = "NetworkFailed"

\* C11: on a cache miss, resolve fails with NetworkFailed for every transport
\* error of the fetch, a non-2xx response and an interrupted transfer included;
\* the body is then never decompressed or unpacked and no directory is created.
C11_TransportErrorsFail ==
    \A k \in 1..Len(resolves) :
        TransportError(resolves[k]) =>
            /\ IsNetworkFailed(resolves[k])
            /\ ~resolves[k].decoded
            /\ resolves[k].after = "absent"


(***************************************************************************)
(* Compiler::get_file and Compiler::get_source (compiler.rs:194-254).      *)
(*                                                                         *)
(* A file id is a package, None for a file outside every package, and a    *)
(* virtual path, a sequence of components.  Bytes are sequences of numbers *)
(* below 256, a text is the sequence of its code points; the files of the  *)
(* model hold characters of one and of two bytes only.  An unpacked        *)
(* package holds the same files for the lifetime of the process.           *)
(***************************************************************************)
FileId(package, vpath) == [package |-> package, vpath |-> vpath]

\* Source::detached: the id every main source carries
DetachedId == FileId(None, <<"main.typ">>)

\* the package whose files are asked for
Cetz == [namespace |-> "preview", name |-> "cetz", version |-> "0.2.0"]

VPaths == {<<"lib.typ">>, <<"logo.png">>, <<"gone.typ">>, <<"..", "..", "escape.typ">>}

FileIds ==
    {DetachedId, FileId(None, <<"local.typ">>)}
    \cup {FileId(Some(Cetz), v) : v \in VPaths}

\* the files of an unpacked package: a source with a two-byte character, an image
PackageContents ==
    (<<"lib.typ">> :> <<35, 195, 169>>) @@ (<<"logo.png">> :> <<137, 80>>)

\* FileError, with the path or the PackageError it carries
FileError(kind, detail) == Err([kind |-> kind, detail |-> detail])
NotFound(path) == FileError("NotFound", path)

\* Path normalisation: a ".." component leaves the directory it follows
RECURSIVE Normalize(_, _)
Normalize(done, rest) ==
    IF rest = <<>> THEN done
    ELSE IF rest[1] = ".."
         THEN Normalize(IF done = <<>> THEN <<>> ELSE SubSeq(done, 1, Len(done) - 1),
                        Tail(rest))
         ELSE Normalize(Append(done, rest[1]), Tail(rest))

\* VirtualPath::resolve: the path under root, None when it leaves root
resolve(vpath, root) ==
    LET path == Normalize(root, vpath)
    IN  IF Len(path) >= Len(root) /\ SubSeq(path, 1, Len(root)) = root
        THEN Some(path) ELSE None

\* std::fs::read(&path).map_err(|e| FileError::from_io(e, &path))
fs_read(d, path) ==
    IF \E dir \in DOMAIN d :
          /\ d[dir] = "complete"
          /\ Len(path) > Len(dir)
          /\ SubSeq(path, 1, Len(dir)) = dir
          /\ SubSeq(path, Len(dir) + 1, Len(path)) \in DOMAIN PackageContents
    THEN LET dir == CHOOSE dir \in DOMAIN d :
                       Len(path) > Len(dir) /\ SubSeq(path, 1, Len(dir)) = dir
         IN  Ok(PackageContents[SubSeq(path, Len(dir) + 1, Len(path))])
    ELSE NotFound(path)

\* a decoding that takes every byte for a character
from_utf8_bytewise(bytes) == Ok(bytes)

\* std::str::from_utf8: characters of one byte and of two bytes
RECURSIVE from_utf8(_)
from_utf8(bytes) ==
    IF bytes = <<>> THEN Ok(<<>>)
    ELSE IF bytes[1] < 128
         THEN LET rest == from_utf8(Tail(bytes))
              IN  IF rest.ok THEN Ok(<<bytes[1]>> \o rest.val) ELSE rest
    ELSE IF bytes[1] \in 194..223 /\ Len(bytes) >= 2 /\ bytes[2] \in 128..191
         THEN LET rest == from_utf8(SubSeq(bytes, 3, Len(bytes)))
              IN  IF rest.ok
                  THEN Ok(<<(bytes[1] - 192) * 64 + (bytes[2] - 128)>> \o rest.val)
                  ELSE rest
    ELSE FileError("InvalidUtf8", <<>>)

\* Source::new(id, text)
Source(id, text) == [id |-> id, text |-> text]

\* CachedFile { bytes, source }
CachedFile(bytes, source) == [bytes |-> bytes, source |-> source]

\* the empty HashMap of Compiler::files
NoFiles == [id \in FileIds |-> None]

\* files.insert that drops every other entry
insert_evicting(fs, id, file) == [i \in FileIds |-> IF i = id THEN Some(file) ELSE None]

\* files.insert(id, file)
insert(fs, id, file) == [fs EXCEPT ![id] = Some(file)]

\* if let Some(file) = files.get_mut(&id) { file.source = Some(source) }
memoize(fs, id, source) ==
    IF fs[id] # None
    THEN [fs EXCEPT ![id] = Some(CachedFile(fs[id][1].bytes, Some(source)))]
    ELSE fs

\* what a call of the file store leaves: the cache, the disk, its result, the
\* reads of the filesystem and the calls of package it made, the requests sent
Served(fs, d, r, reads, resolved, reqs) ==
    [files |-> fs, disk |-> d, result |-> r, reads |-> reads, resolved |-> resolved,
     requests |-> reqs]

\* an error return that first caches an empty file under the id
FailedCaching(fs, id, d, r, reads, resolved, reqs) ==
    Served(insert(fs, id, CachedFile(<<>>, None)), d, r, reads, resolved, reqs)

\* an error return of get_file: nothing is inserted
Failed(fs, id, d, r, reads, resolved, reqs) == Served(fs, d, r, reads, resolved, reqs)

\* Compiler::get_file
GetFile(fs, d, root, id, answer) ==
    IF fs[id] # None THEN Served(fs, d, Ok(fs[id][1].bytes), 0, 0, <<>>)
    ELSE IF id.package = None THEN Failed(fs, id, d, NotFound(id.vpath), 0, 0, <<>>)
    ELSE LET package == Package(d, root, id.package[1], answer)
         IN  IF ~package.result.ok
             THEN Failed(fs, id, package.disk,
                         FileError("Package", package.result.val), 0, 1, package.requests)
             ELSE LET path == resolve(id.vpath, package.result.val)
                  IN  IF path = None
                      THEN Failed(fs, id, package.disk, NotFound(id.vpath), 0, 1,
                                  package.requests)
                      ELSE LET bytes == fs_read(package.disk, path[1])
                           IN  IF ~bytes.ok
                               THEN Failed(fs, id, package.disk, bytes, 1, 1,
                                           package.requests)
                               ELSE Served(insert(fs, id, CachedFile(bytes.val, None)),
                                           package.disk, bytes, 1, 1, package.requests)

\* Compiler::get_source
GetSource(fs, d, root, id, answer) ==
    IF fs[id] # None /\ fs[id][1].source # None
    THEN Served(fs, d, Ok(fs[id][1].source[1]), 0, 0, <<>>)
    ELSE LET file == GetFile(fs, d, root, id, answer)
         IN  IF ~file.result.ok THEN file
             ELSE LET contents == from_utf8(file.result.val)
                  IN  IF ~contents.ok THEN [file EXCEPT !.result = contents]
                      ELSE LET source == Source(id, contents.val)
                           IN  [file EXCEPT !.files = memoize(file.files, id, source),
                                            !.result = Ok(source)]


(***************************************************************************)
(* The World of a compilation unit (compiler.rs:113-119, 320-352).         *)
(***************************************************************************)
\* the fragments the units are built from: "$x$", "$y$"
UnitTexts == {<<36, 120, 36>>, <<36, 121, 36>>}

\* time::OffsetDateTime: an instant, in half days since the epoch, and the offset
\* from UTC, in half days, of the clock that read it
OffsetDateTime(instant, offset) == [instant |-> instant, offset |-> offset]

\* the offsets from UTC the system can report as local: UTC, UTC+12
LocalOffsets == {0, 1}

\* OffsetDateTime::now_utc, the clock showing c
now_utc(c) == OffsetDateTime(c, 0)

\* OffsetDateTime::now_local, the clock showing c: what it can return, the local
\* offset being the system's to tell, or not
now_local(c) ==
    {Ok(OffsetDateTime(c, off)) : off \in LocalOffsets} \cup {Err("IndeterminateOffset")}

\* OffsetDateTime::date: the calendar day, in days since the epoch, on the clock
\* of the offset (two half days a day)
date(t) == (t.instant + t.offset) \div 2

\* Compiler::wrap_source, now_local() having returned local, the clock showing c
wrap_source(text, local, c) ==
    [source |-> Source(DetachedId, text),
     time |-> IF local.ok THEN local.val ELSE now_utc(c)]

\* World::main
main(world) == world.source.id

\* World::source that asks the file store whatever the id
WorldSourceDelegating(world, fs, d, root, id, answer) == GetSource(fs, d, root, id, answer)

\* World::source
WorldSource(world, fs, d, root, id, answer) ==
    IF id = world.source.id THEN Served(fs, d, Ok(world.source), 0, 0, <<>>)
    ELSE GetSource(fs, d, root, id, answer)

\* the offsets, in hours, today is asked with: none, UTC, UTC+12
Offsets == {None, Some(0), Some(12)}

\* World::today that reads the clock when it is asked
today_reading_clock(world, offset) == Some(date(now_utc(clock)))

\* World::today
today(world, offset) == Some(date(world.time))

\* World::file
WorldFile(world, fs, d, root, id, answer) == GetFile(fs, d, root, id, answer)

(***************************************************************************)
(* The file store and the World, call by call, from one thread.  The log   *)
(* of the package cache is not kept here: the record of a call carries the *)
(* calls of package and the requests it made.                              *)
(***************************************************************************)
StoreOps == {"get_file", "get_source"}

\* the answers that tell the outcomes of package apart for the file store:
\* none, an archive, an archive that cannot be unpacked
StoreAnswers ==
    {Answer(FALSE, 0, FALSE, ""), Answer(TRUE, 200, TRUE, "tar.gz"),
     Answer(TRUE, 200, TRUE, "tar.gz:bad-entry")}

\* the answer of a registry that is never asked
Unasked == Answer(FALSE, 0, FALSE, "")

\* one call op(id) that leaves r, and its record
StoreCall(op, id, r) ==
    /\ files' = r.files
    /\ disk' = r.disk
    /\ last' = Some([op |-> op, id |-> id, result |-> r.result,
                     reads |-> r.reads, resolved |-> r.resolved,
                     requests |-> Len(r.requests),
                     repeated |-> op \in StoreOps /\ served[<<op, id>>] # None])
    /\ served' = IF op \in StoreOps /\ r.result.ok /\ served[<<op, id>>] = None
                 THEN [served EXCEPT ![<<op, id>>] = Some(r.result)]
                 ELSE served
    /\ UNCHANGED <<disk0, network, resolves, unit>>
    /\ UNCHANGED <<convert_vars, run_vars, thread_vars, resolver_vars, report_vars, today_vars>>

\* the entry is in the cache (compiler.rs:195-201)
GetFileCached ==
    \E id \in FileIds :
        /\ files[id] # None
        /\ StoreCall("get_file", id, GetFile(files, disk, CacheRoot, id, Unasked))

\* the id has no package (compiler.rs:223)
GetFileNoPackage ==
    \E id \in FileIds :
        /\ files[id] = None
        /\ id.package = None
        /\ StoreCall("get_file", id, GetFile(files, disk, CacheRoot, id, Unasked))

\* the package cannot be resolved (compiler.rs:205)
GetFilePackageFailed ==
    \E id \in FileIds, answer \in StoreAnswers :
        /\ files[id] = None
        /\ id.package # None
        /\ LET r == GetFile(files, disk, CacheRoot, id, answer)
           IN  /\ ~r.result.ok
               /\ r.result.val.kind = "Package"
               /\ StoreCall("get_file", id, r)

\* the path leaves the directory of the package (compiler.rs:206-208)
GetFileUnresolved ==
    \E id \in FileIds, answer \in StoreAnswers :
        /\ files[id] = None
        /\ id.package # None
        /\ LET r == GetFile(files, disk, CacheRoot, id, answer)
           IN  /\ ~r.result.ok
               /\ r.result.val.kind = "NotFound"
               /\ r.reads = 0
               /\ StoreCall("get_file", id, r)

\* the file cannot be read (compiler.rs:209)
GetFileUnreadable ==
    \E id \in FileIds, answer \in StoreAnswers :
        /\ files[id] = None
        /\ id.package # None
        /\ LET r == GetFile(files, disk, CacheRoot, id, answer)
           IN  /\ ~r.result.ok
               /\ r.reads = 1
               /\ StoreCall("get_file", id, r)

\* the file is read and inserted (compiler.rs:209-220)
GetFileLoaded ==
    \E id \in FileIds, answer \in StoreAnswers :
        /\ files[id] = None
        /\ id.package # None
        /\ LET r == GetFile(files, disk, CacheRoot, id, answer)
           IN  /\ r.result.ok
               /\ StoreCall("get_file", id, r)

\* the parsed source is in the cache (compiler.rs:228-236)
GetSourceCached ==
    \E id \in FileIds :
        /\ files[id] # None
        /\ files[id][1].source # None
        /\ StoreCall("get_source", id, GetSource(files, disk, CacheRoot, id, Unasked))

\* get_file fails (compiler.rs:239)
GetSourceFailed ==
    \E id \in FileIds, answer \in StoreAnswers :
        /\ files[id] = None
        /\ LET r == GetSource(files, disk, CacheRoot, id, answer)
           IN  /\ ~r.result.ok
               /\ r.result.val.kind # "InvalidUtf8"
               /\ StoreCall("get_source", id, r)

\* the bytes are no UTF-8 text (compiler.rs:242)
GetSourceInvalidUtf8 ==
    \E id \in FileIds, answer \in StoreAnswers :
        LET r == GetSource(files, disk, CacheRoot, id, answer)
        IN  /\ ~r.result.ok
            /\ r.result.val.kind = "InvalidUtf8"
            /\ StoreCall("get_source", id, r)

\* the source is parsed and memoized (compiler.rs:243-253)
GetSourceParsed ==
    \E id \in FileIds, answer \in StoreAnswers :
        /\ ~(files[id] # None /\ files[id][1].source # None)
        /\ LET r == GetSource(files, disk, CacheRoot, id, answer)
           IN  /\ r.result.ok
               /\ StoreCall("get_source", id, r)

\* render begins a compilation (compiler.rs:273): no call of its World yet
WrapUnit ==
    \E text \in UnitTexts, local \in now_local(clock) :
        /\ unit' = Some(wrap_source(text, local, clock))
        /\ last' = None
        /\ todays' = <<>>
        /\ UNCHANGED <<served, package_vars, clock>>
        /\ UNCHANGED <<convert_vars, run_vars, thread_vars, resolver_vars, report_vars>>

\* source(id) for the main id (compiler.rs:334-335)
WorldSourceMain ==
    \E id \in FileIds :
        /\ unit # None
        /\ id = main(unit[1])
        /\ StoreCall("source", id, WorldSource(unit[1], files, disk, CacheRoot, id, Unasked))

\* source(id) for another id (compiler.rs:336-338)
WorldSourceOther ==
    \E id \in FileIds, answer \in StoreAnswers :
        /\ unit # None
        /\ id # main(unit[1])
        /\ StoreCall("source", id, WorldSource(unit[1], files, disk, CacheRoot, id, answer))

\* file(id) (compiler.rs:341-343)
WorldFileCall ==
    \E id \in FileIds, answer \in StoreAnswers :
        /\ unit # None
        /\ StoreCall("file", id, WorldFile(unit[1], files, disk, CacheRoot, id, answer))

FilesInit ==
    /\ disk \in [PackagePaths -> {"absent", "complete"}]
    /\ disk0 = disk
    /\ network = <<>>
    /\ resolves = <<>>
    /\ files = NoFiles
    /\ last = None
    /\ served = [k \in StoreOps \X FileIds |-> None]
    /\ unit = None
    /\ opts = DefaultOptions
    /\ ConvertIdle
    /\ RunIdle
    /\ ThreadIdle
    /\ ResolverIdle
    /\ ReportIdle
    /\ TodayIdle

FilesNext ==
    \/ GetFileCached
    \/ GetFileNoPackage
    \/ GetFilePackageFailed
    \/ GetFileUnresolved
    \/ GetFileUnreadable
    \/ GetFileLoaded
    \/ GetSourceCached
    \/ GetSourceFailed
    \/ GetSourceInvalidUtf8
    \/ GetSourceParsed
    \/ WrapUnit
    \/ WorldSourceMain
    \/ WorldSourceOther
    \/ WorldFileCall

SpecFiles == FilesInit /\ [][FilesNext]_vars


(***************************************************************************)
(* The file store and the World under single-threaded use.                 *)
(***************************************************************************)
\* the UTF-8 encoding of a text of code points below 2048
RECURSIVE Utf8(_)
Utf8(text) ==
    IF text = <<>> THEN <<>>
    ELSE (IF text[1] < 128 THEN <<text[1]>>
          ELSE <<192 + (text[1] \div 64), 128 + (text[1] % 64)>>) \o Utf8(Tail(text))

\* the bytes are well-formed UTF-8 of characters of one and of two bytes
RECURSIVE IsUtf8(_)
IsUtf8(bytes) ==
    \/ bytes = <<>>
    \/ bytes[1] < 128 /\ IsUtf8(Tail(bytes))
    \/ /\ bytes[1] \in 194..223
       /\ Len(bytes) >= 2
       /\ bytes[2] \in 128..191
       /\ IsUtf8(SubSeq(bytes, 3, Len(bytes)))

\* the call repeats one that succeeded: same result, nothing read, nothing resolved
RepeatsFirst(c) ==
    c.repeated =>
        /\ c.result.ok
        /\ c.result.val = served[<<c.op, c.id>>][1].val
        /\ c.reads = 0
        /\ c.resolved = 0

\* the call returned the source tagged id whose text encodes to bytes
ParsedFrom(c, id, bytes) ==
    /\ c.result.ok
    /\ c.result.val.id = id
    /\ Utf8(c.result.val.text) = bytes

\* C12, as claimed: for any id for which get_bytes succeeds, a following
\* get_source returns a parsed form tagged with that id whose text is the UTF-8
\* decoding of those bytes; after a first successful call every repetition of
\* get_bytes or get_source for the id returns an identical result and performs
\* no filesystem read and no package resolution.
C12_ReadThrough ==
    last # None =>
        LET c == last[1]
        IN  /\ (c.op = "get_source" /\ served[<<"get_file", c.id>>] # None) =>
                 ParsedFrom(c, c.id, served[<<"get_file", c.id>>][1].val)
            /\ RepeatsFirst(c)

\* C12, amended: for any id for which get_bytes succeeds with bytes that are
\* valid UTF-8, a following get_source returns a parsed form tagged with that
\* id whose text is the UTF-8 decoding of those bytes, and for bytes that are
\* not valid UTF-8 it fails with InvalidUtf8; after a first successful call
\* every repetition of get_bytes or get_source for the id returns an identical
\* result and performs no filesystem read and no package resolution.
C12_ReadThroughValidUtf8 ==
    last # None =>
        LET c == last[1]
        IN  /\ (c.op = "get_source" /\ served[<<"get_file", c.id>>] # None) =>
                 LET bytes == served[<<"get_file", c.id>>][1].val
                 IN  IF IsUtf8(bytes) THEN ParsedFrom(c, c.id, bytes)
                     ELSE ~c.result.ok /\ c.result.val.kind = "InvalidUtf8"
            /\ RepeatsFirst(c)

\* get_source is repeated after get_bytes, for a file with a two-byte character
C12_Witness ==
    /\ last # None
    /\ last[1].op = "get_source"
    /\ last[1].repeated
    /\ served[<<"get_file", last[1].id>>] # None
    /\ last[1].result.ok
    /\ Len(last[1].result.val.text) < Len(served[<<"get_file", last[1].id>>][1].val)
    /\ last[1].reads = 0

\* C13: under single-threaded use the file cache only grows: no entry is
\* removed, the bytes of an entry never change, and the parsed source of an
\* entry, once present, never changes and never reverts to absent.
C13_CacheOnlyGrows ==
    [][\A id \in FileIds :
          files[id] # None =>
             /\ files'[id] # None
             /\ files'[id][1].bytes = files[id][1].bytes
             /\ files[id][1].source # None =>
                  files'[id][1].source = files[id][1].source]_vars

\* two entries, one of them parsed, and a call served from the cache
C13_Witness ==
    /\ \E i, j \in FileIds :
          /\ i # j
          /\ files[i] # None
          /\ files[i][1].source # None
          /\ files[j] # None
          /\ files[j][1].source = None
    /\ last # None
    /\ last[1].repeated

\* both results are Ok with one value, or both are errors with one value
Same(r1, r2) == r1.ok = r2.ok /\ r1.val = r2.val

\* C16: for the main id of the unit, source(id) and file(id) succeed and return
\* the unit's own source, its parsed form and its bytes, without consulting the
\* file store; for every other id they return what get_source and get_bytes
\* of the file store return.
C16_MainSuppliedDirectly ==
    [][(last' # None /\ unit # None /\ last'[1].op \in {"source", "file"}) =>
          LET c == last'[1]
              own == unit[1].source
          IN  IF c.id = own.id
              THEN /\ c.result.ok
                   /\ c.op = "source" => c.result.val = own
                   /\ c.op = "file" => c.result.val = Utf8(own.text)
                   /\ c.reads = 0
                   /\ c.resolved = 0
                   /\ files' = files
              ELSE \E answer \in StoreAnswers :
                      Same(c.result,
                           IF c.op = "source"
                           THEN GetSource(files, disk, CacheRoot, c.id, answer).result
                           ELSE GetFile(files, disk, CacheRoot, c.id, answer).result)]_vars

\* C17: get_bytes for an id that has no package and is not cached fails with
\* NotFound, and every failing get_bytes leaves the file cache exactly as it
\* was before the call.
C17_FailureInsertsNothing ==
    [][(last' # None /\ last'[1].op = "get_file") =>
          LET c == last'[1]
          IN  /\ (c.id.package = None /\ files[c.id] = None) =>
                   (~c.result.ok /\ c.result.val.kind = "NotFound")
              /\ ~c.result.ok => files' = files]_vars

\* a read of a file that the package does not hold fails, beside a cached entry
C17_Witness ==
    /\ last # None
    /\ last[1].op = "get_file"
    /\ ~last[1].result.ok
    /\ last[1].reads = 1
    /\ files[last[1].id] = None
    /\ \E id \in FileIds : files[id] # None

\* C18: no unit's main source is ever stored in the shared file cache, whose
\* entries are files of packages alone, and source(main) of a unit returns that
\* unit's own fragment text, every unit's main source carrying the same
\* detached id.
C18_UnitsIsolated ==
    /\ files[DetachedId] = None
    /\ \A id \in FileIds :
          files[id] # None =>
             /\ id.package # None
             /\ files[id][1].bytes = PackageContents[id.vpath]
             /\ files[id][1].source # None => files[id][1].source[1].id = id
    /\ unit # None => unit[1].source.id = DetachedId
    /\ (last # None /\ last[1].op = "source" /\ last[1].id = DetachedId) =>
          /\ last[1].result.ok
          /\ last[1].result.val.id = DetachedId
          /\ last[1].result.val.text = unit[1].source.text

\* a unit is asked for its main source while the cache holds a parsed entry
\* that an earlier call left
C18_Witness ==
    /\ last # None
    /\ last[1].op = "source"
    /\ last[1].id = DetachedId
    /\ last[1].result.ok
    /\ last[1].result.val.text = <<36, 121, 36>>
    /\ \E id \in FileIds : files[id] # None /\ files[id][1].source # None


(***************************************************************************)
(* get_file and get_source called from several threads on one Compiler     *)
(* (compiler.rs:194-254).  A thread holds the read lock for its lookup and *)
(* the write lock for its insert or its update, and no lock in between:    *)
(* each block under a lock is one step, and so is the load of the file     *)
(* between the two.                                                        *)
(***************************************************************************)
Threads == 1..MaxThreads

\* the locals of a thread: where it is, its call, let bytes, let source
Thread(at, op, id, bytes, source) ==
    [pc |-> at, op |-> op, id |-> id, bytes |-> bytes, source |-> source]

\* a thread between two calls
Resting == Thread("idle", "", DetachedId, <<>>, None)

\* where get_file returns to: its caller get_source, or the caller of the store
AfterGetFile(th) ==
    IF th.op = "get_source" THEN [th EXCEPT !.pc = "parse"] ELSE Resting

ThreadStep(t, th) ==
    /\ threads' = [threads EXCEPT ![t] = th]
    /\ UNCHANGED <<disk0, network, resolves, store_vars>>
    /\ UNCHANGED <<convert_vars, run_vars, resolver_vars, report_vars, today_vars>>

\* a thread calls get_file or get_source
ThreadCall ==
    \E t \in Threads, op \in StoreOps, id \in FileIds :
        /\ threads[t].pc = "idle"
        /\ ThreadStep(t, Thread(IF op = "get_source" THEN "source_lookup" ELSE "lookup",
                                op, id, <<>>, None))
        /\ UNCHANGED <<files, disk, inserts>>

\* get_source finds the parsed source under the read lock (compiler.rs:229-236)
SourceLookupHit ==
    \E t \in Threads :
        /\ threads[t].pc = "source_lookup"
        /\ files[threads[t].id] # None
        /\ files[threads[t].id][1].source # None
        /\ ThreadStep(t, Resting)
        /\ UNCHANGED <<files, disk, inserts>>

\* get_source finds none and calls get_file (compiler.rs:229-239)
SourceLookupMiss ==
    \E t \in Threads :
        /\ threads[t].pc = "source_lookup"
        /\ ~(files[threads[t].id] # None /\ files[threads[t].id][1].source # None)
        /\ ThreadStep(t, [threads[t] EXCEPT !.pc = "lookup"])
        /\ UNCHANGED <<files, disk, inserts>>

\* get_file finds the entry under the read lock (compiler.rs:196-201)
LookupHit ==
    \E t \in Threads :
        /\ threads[t].pc = "lookup"
        /\ files[threads[t].id] # None
        /\ ThreadStep(t, AfterGetFile([threads[t] EXCEPT
                                          !.bytes = files[threads[t].id][1].bytes]))
        /\ UNCHANGED <<files, disk, inserts>>

\* get_file finds no entry and releases the read lock (compiler.rs:196-203)
LookupMiss ==
    \E t \in Threads :
        /\ threads[t].pc = "lookup"
        /\ files[threads[t].id] = None
        /\ ThreadStep(t, [threads[t] EXCEPT !.pc = "load"])
        /\ UNCHANGED <<files, disk, inserts>>

\* the file cannot be loaded: get_file returns the error, and so does
\* get_source (compiler.rs:204-209, 223, 239)
LoadFails ==
    \E t \in Threads, answer \in StoreAnswers :
        LET r == GetFile(NoFiles, disk, CacheRoot, threads[t].id, answer)
        IN  /\ threads[t].pc = "load"
            /\ ~r.result.ok
            /\ disk' = r.disk
            /\ ThreadStep(t, Resting)
            /\ UNCHANGED <<files, inserts>>

\* the package is resolved and the file is read, under no lock (compiler.rs:204-210)
Load ==
    \E t \in Threads, answer \in StoreAnswers :
        LET r == GetFile(NoFiles, disk, CacheRoot, threads[t].id, answer)
        IN  /\ threads[t].pc = "load"
            /\ r.result.ok
            /\ disk' = r.disk
            /\ ThreadStep(t, [threads[t] EXCEPT !.pc = "insert", !.bytes = r.result.val])
            /\ UNCHANGED <<files, inserts>>

\* files.insert under the write lock (compiler.rs:212-220)
Insert ==
    \E t \in Threads :
        /\ threads[t].pc = "insert"
        /\ files' = insert(files, threads[t].id, CachedFile(threads[t].bytes, None))
        /\ inserts' = [inserts EXCEPT ![threads[t].id] = @ + 1]
        /\ ThreadStep(t, AfterGetFile(threads[t]))
        /\ UNCHANGED disk

\* the bytes are no UTF-8 text (compiler.rs:242)
ParseFails ==
    \E t \in Threads :
        /\ threads[t].pc = "parse"
        /\ ~from_utf8(threads[t].bytes).ok
        /\ ThreadStep(t, Resting)
        /\ UNCHANGED <<files, disk, inserts>>

\* Source::new (compiler.rs:242-243)
Parse ==
    \E t \in Threads :
        /\ threads[t].pc = "parse"
        /\ from_utf8(threads[t].bytes).ok
        /\ ThreadStep(t, [threads[t] EXCEPT
                            !.pc = "memoize",
                            !.source = Some(Source(threads[t].id,
                                                   from_utf8(threads[t].bytes).val))])
        /\ UNCHANGED <<files, disk, inserts>>

\* files.get_mut under the write lock, and the return (compiler.rs:246-253)
Memoize ==
    \E t \in Threads :
        /\ threads[t].pc = "memoize"
        /\ files' = memoize(files, threads[t].id, threads[t].source[1])
        /\ ThreadStep(t, Resting)
        /\ UNCHANGED <<disk, inserts>>

ThreadsInit ==
    /\ disk \in [PackagePaths -> {"absent", "complete"}]
    /\ disk0 = disk
    /\ network = <<>>
    /\ resolves = <<>>
    /\ files = NoFiles
    /\ threads = [t \in Threads |-> Resting]
    /\ inserts = [id \in FileIds |-> 0]
    /\ opts = DefaultOptions
    /\ ConvertIdle
    /\ RunIdle
    /\ StoreIdle
    /\ ResolverIdle
    /\ ReportIdle
    /\ TodayIdle

ThreadsNext ==
    \/ ThreadCall
    \/ SourceLookupHit
    \/ SourceLookupMiss
    \/ LookupHit
    \/ LookupMiss
    \/ LoadFails
    \/ Load
    \/ Insert
    \/ ParseFails
    \/ Parse
    \/ Memoize

SpecThreads == ThreadsInit /\ [][ThreadsNext]_vars

\* C14: under any interleaving of get_bytes and get_source calls of several
\* threads the shared file cache is append-only: an entry that has been
\* inserted is never overwritten by a second insert, and a parsed source that
\* has been memoized is never reset to absent.
C14_AppendOnlyUnderThreads ==
    [][\A id \in FileIds :
          files[id] # None =>
             /\ inserts'[id] = inserts[id]
             /\ files'[id] # None
             /\ files'[id][1].bytes = files[id][1].bytes
             /\ files[id][1].source # None => files'[id][1].source # None]_vars


(***************************************************************************)
(* Compiler::package called from several threads (compiler.rs:125-191).    *)
(* No lock is taken: the test of the directory, the download, the start of *)
(* the unpacking and its end are steps of their own.  A directory is       *)
(* "partial" while only part of the archive is in it.  An unpacking that   *)
(* finds the directory in place leaves it as it is until it ends; one      *)
(* whose directory was removed under it creates it again for the entries   *)
(* that remain.  The requests are not logged here.                         *)
(***************************************************************************)
\* the locals of a call of package: where it is, the package, the archive, and
\* once it has returned its result and the directory as it was at the return
Resolver(at, p, tar, r, seen) ==
    [pc |-> at, package |-> p, tar |-> tar, result |-> r, seen |-> seen]

\* a thread that has not called package
NotResolving == Resolver("idle", Cetz, "", Ok(<<>>), "")

ResolverStep(t, th) ==
    /\ resolvers' = [resolvers EXCEPT ![t] = th]
    /\ UNCHANGED <<disk0, network, files, resolves, store_vars, thread_vars>>
    /\ UNCHANGED <<convert_vars, run_vars, report_vars, today_vars>>

\* package returns r
ResolverReturn(t, d, r) ==
    /\ disk' = d
    /\ ResolverStep(t, [resolvers[t] EXCEPT
                           !.pc = "done", !.tar = "", !.result = r,
                           !.seen = d[PackagePath(CacheRoot, resolvers[t].package)]])

\* a thread calls package, for the first time or again
ResolveCall ==
    \E t \in Threads, p \in PackageSpecs :
        /\ resolvers[t].pc \in {"idle", "done"}
        /\ ResolverStep(t, Resolver("exists", p, "", Ok(<<>>), ""))
        /\ UNCHANGED disk

\* path.exists() holds (compiler.rs:129-131)
ExistsHit ==
    \E t \in Threads :
        /\ resolvers[t].pc = "exists"
        /\ Exists(disk, PackagePath(CacheRoot, resolvers[t].package))
        /\ ResolverReturn(t, disk, Ok(PackagePath(CacheRoot, resolvers[t].package)))

\* path.exists() does not hold (compiler.rs:129-137)
ExistsMiss ==
    \E t \in Threads :
        /\ resolvers[t].pc = "exists"
        /\ ~Exists(disk, PackagePath(CacheRoot, resolvers[t].package))
        /\ ResolverStep(t, [resolvers[t] EXCEPT !.pc = "fetch"])
        /\ UNCHANGED disk

\* the download fails (compiler.rs:139-154)
FetchFails ==
    \E t \in Threads, answer \in NetworkAnswers :
        /\ resolvers[t].pc = "fetch"
        /\ ~answer.sent \/ ~answer.transferred
        /\ ResolverReturn(t, disk,
                          IF ~answer.sent THEN NetworkFailed("Failed to download package")
                          ELSE NetworkFailed("Failed to save package"))

\* the body is no gzip stream (compiler.rs:156-178)
DecompressFails ==
    \E t \in Threads, answer \in NetworkAnswers :
        /\ resolvers[t].pc = "fetch"
        /\ answer.sent /\ answer.transferred
        /\ ~Decompress(answer.body).ok
        /\ ResolverReturn(t, disk, MalformedArchive("Failed to decompress package"))

\* the body is downloaded and decompressed (compiler.rs:139-180)
Fetched ==
    \E t \in Threads, answer \in NetworkAnswers :
        /\ resolvers[t].pc = "fetch"
        /\ answer.sent /\ answer.transferred
        /\ Decompress(answer.body).ok
        /\ ResolverStep(t, [resolvers[t] EXCEPT !.pc = "unpack",
                                                !.tar = Decompress(answer.body).val])
        /\ UNCHANGED disk

\* archive.unpack creates the directory and writes its first entries (compiler.rs:181)
UnpackBegin ==
    \E t \in Threads :
        LET path == PackagePath(CacheRoot, resolvers[t].package)
        IN  /\ resolvers[t].pc = "unpack"
            /\ disk' = IF disk[path] = "absent" THEN [disk EXCEPT ![path] = "partial"]
                       ELSE disk
            /\ ResolverStep(t, [resolvers[t] EXCEPT !.pc = "unpacking"])

\* archive.unpack writes its last entry and package returns (compiler.rs:181-190)
UnpackEnd ==
    \E t \in Threads :
        LET path == PackagePath(CacheRoot, resolvers[t].package)
        IN  /\ resolvers[t].pc = "unpacking"
            /\ resolvers[t].tar = "tar"
            /\ ResolverReturn(t, [disk EXCEPT ![path] = IF disk[path] = "absent"
                                                        THEN "partial" ELSE "complete"],
                              Ok(path))

\* archive.unpack fails at an entry and the directory is removed (compiler.rs:181-188)
UnpackFails ==
    \E t \in Threads :
        LET path == PackagePath(CacheRoot, resolvers[t].package)
        IN  /\ resolvers[t].pc = "unpacking"
            /\ resolvers[t].tar # "tar"
            /\ ResolverReturn(t, remove_dir_all(disk, path),
                              MalformedArchive("Failed to unpack package"))

ResolversInit ==
    /\ disk \in [PackagePaths -> {"absent", "complete"}]
    /\ disk0 = disk
    /\ network = <<>>
    /\ resolves = <<>>
    /\ files = NoFiles
    /\ resolvers = [t \in Threads |-> NotResolving]
    /\ opts = DefaultOptions
    /\ ConvertIdle
    /\ RunIdle
    /\ StoreIdle
    /\ ThreadIdle
    /\ ReportIdle
    /\ TodayIdle

ResolversNext ==
    \/ ResolveCall
    \/ ExistsHit
    \/ ExistsMiss
    \/ FetchFails
    \/ DecompressFails
    \/ Fetched
    \/ UnpackBegin
    \/ UnpackEnd
    \/ UnpackFails

SpecResolvers == ResolversInit /\ [][ResolversNext]_vars

\* C15: when several threads resolve the same uncached package concurrently,
\* every resolve that returns Ok returns a directory holding a complete
\* extraction: none takes the existence fast path on a directory another is
\* still unpacking, and no failure cleanup removes a directory that another
\* caller has returned as resolved.
C15_ConcurrentResolveComplete ==
    \A t \in Threads :
        (resolvers[t].pc = "done" /\ resolvers[t].result.ok) =>
            /\ resolvers[t].seen = "complete"
            /\ disk[Directory(resolvers[t].package)] = "complete"


(***************************************************************************)
(* Compiler::render and print_diagnostics (compiler.rs:271-291, 425-458).  *)
(*                                                                         *)
(* The engine returns warnings and either a document or errors.  A span is *)
(* detached, or in a file whose range cannot be found, or located; for a   *)
(* located span the formatter reads the lines of the file through the      *)
(* World, which can fail.                                                  *)
(***************************************************************************)
Spans == {"detached", "unresolved", "located", "unreadable"}

\* SourceDiagnostic { severity, span, message }
SourceDiagnostic(severity, span, message) ==
    [severity |-> severity, span |-> span, message |-> message]

\* the k-th diagnostic of a list carries the message <<prefix, k>>
Diagnostics(severity, prefix, n) ==
    UNION {{[k \in 1..m |-> SourceDiagnostic(severity, spans[k], <<prefix, k>>)] :
              spans \in [1..m -> Spans]} : m \in 0..n}

\* Warned { output, warnings }
Warned(output, warnings) == [output |-> output, warnings |-> warnings]

\* what typst::compile can return: a document, or one error or more
Compilations ==
    {Warned(Ok(<<"document">>), w) : w \in Diagnostics("Warning", "w", MaxDiags)}
    \cup {Warned(Err(e), w) : w \in Diagnostics("Warning", "w", MaxDiags),
                              e \in Diagnostics("Error", "e", MaxDiags) \ {<<>>}}

Compilation(msg) == Err(<<"Compilation", msg>>)

\* label(world, span): span.id()? and world.range(span)?
label(span) == IF span \in {"detached", "unresolved"} THEN None ELSE Some(span)

\* term::emit_into_string(&config, world, &diag)
emit_into_string(diagnostic) ==
    IF label(diagnostic.span) = Some("unreadable") THEN Err(<<"files::Error">>)
    ELSE Ok([message |-> diagnostic.message, location |-> label(diagnostic.span)])

\* warnings.iter().chain(errors), as render passes them (compiler.rs:279, 285)
Chain(c) == IF c.output.ok THEN c.warnings ELSE c.warnings \o c.output.val

\* the diagnostic the loop is at
Current == Chain(compiled[1])[cursor + 1]

ReportStep ==
    /\ UNCHANGED <<package_vars, store_vars, thread_vars, resolver_vars, today_vars>>
    /\ UNCHANGED <<convert_vars, run_vars>>

\* typst::compile returns a document (compiler.rs:275-278)
CompileDocument ==
    \E c \in Compilations :
        /\ compiled = None
        /\ c.output.ok
        /\ compiled' = Some(c)
        /\ UNCHANGED <<cursor, emitted, rendered>>
        /\ ReportStep

\* typst::compile returns errors (compiler.rs:275-284)
CompileErrors ==
    \E c \in Compilations :
        /\ compiled = None
        /\ ~c.output.ok
        /\ compiled' = Some(c)
        /\ UNCHANGED <<cursor, emitted, rendered>>
        /\ ReportStep

Looping == compiled # None /\ rendered = None /\ cursor < Len(Chain(compiled[1]))

\* a warning is formatted and handed to warn! (compiler.rs:434-453)
EmitWarning ==
    /\ Looping
    /\ Current.severity = "Warning"
    /\ emit_into_string(Current).ok
    /\ emitted' = Append(emitted, [level |-> "warn", diag |-> emit_into_string(Current).val])
    /\ cursor' = cursor + 1
    /\ UNCHANGED <<compiled, rendered>>
    /\ ReportStep

\* an error is formatted and handed to error! (compiler.rs:434-452)
EmitError ==
    /\ Looping
    /\ Current.severity = "Error"
    /\ emit_into_string(Current).ok
    /\ emitted' = Append(emitted, [level |-> "error", diag |-> emit_into_string(Current).val])
    /\ cursor' = cursor + 1
    /\ UNCHANGED <<compiled, rendered>>
    /\ ReportStep

\* emit_into_string fails: print_diagnostics returns the error, and render
\* returns it (compiler.rs:449-450, 279, 285)
EmitFails ==
    /\ Looping
    /\ ~emit_into_string(Current).ok
    /\ rendered' = Some(Compilation("Failed to format diagnostic"))
    /\ UNCHANGED <<compiled, cursor, emitted>>
    /\ ReportStep

\* the loop is over, the pages of the document are returned (compiler.rs:280-282)
RenderDocument ==
    /\ compiled # None /\ rendered = None
    /\ cursor = Len(Chain(compiled[1]))
    /\ compiled[1].output.ok
    /\ rendered' = Some(Ok(<<"<svg/>">>))
    /\ UNCHANGED <<compiled, cursor, emitted>>
    /\ ReportStep

\* the loop is over, the compilation had failed (compiler.rs:286-288)
RenderFailed ==
    /\ compiled # None /\ rendered = None
    /\ cursor = Len(Chain(compiled[1]))
    /\ ~compiled[1].output.ok
    /\ rendered' = Some(Compilation("typst compilation failed"))
    /\ UNCHANGED <<compiled, cursor, emitted>>
    /\ ReportStep

RenderInit ==
    /\ compiled = None
    /\ cursor = 0
    /\ emitted = <<>>
    /\ rendered = None
    /\ opts = DefaultOptions
    /\ ConvertIdle
    /\ RunIdle
    /\ PackageIdle
    /\ StoreIdle
    /\ ThreadIdle
    /\ ResolverIdle
    /\ TodayIdle

RenderNext ==
    \/ CompileDocument
    \/ CompileErrors
    \/ EmitWarning
    \/ EmitError
    \/ EmitFails
    \/ RenderDocument
    \/ RenderFailed

SpecRender == RenderInit /\ [][RenderNext]_vars

\* the messages handed to the log, in order
EmittedMessages == [k \in 1..Len(emitted) |-> emitted[k].diag.message]

\* the messages of the diagnostics of a list, in order
MessagesOf(ds) == [k \in 1..Len(ds) |-> ds[k].message]

\* C19: when the engine returns errors instead of a document, every
\* accumulated diagnostic is emitted before render returns the failure: the
\* warnings first, then the errors, each group in the order of the engine,
\* none skipped, and only then does render return CompileError::Compilation.
C19_AllEmittedBeforeFailure ==
    (compiled # None /\ ~compiled[1].output.ok) =>
        /\ rendered # None =>
             /\ ~rendered[1].ok
             /\ rendered[1].val[1] = "Compilation"
             /\ EmittedMessages =
                  MessagesOf(compiled[1].warnings) \o MessagesOf(compiled[1].output.val)
        /\ \A k \in 1..Len(emitted) :
              emitted[k].level = IF k <= Len(compiled[1].warnings) THEN "warn" ELSE "error"

\* C20: a diagnostic whose span, file or offset cannot be resolved, or whose
\* formatting fails, degrades to an unlocated message: it is still emitted, the
\* remaining diagnostics are still emitted, the report does not fail, and a
\* compilation that produced a document is never turned into a failed render
\* because a warning could not be formatted.
C20_DegradesToUnlocated ==
    (compiled # None /\ rendered # None) =>
        /\ EmittedMessages = MessagesOf(Chain(compiled[1]))
        /\ \A k \in 1..Len(emitted) :
              Chain(compiled[1])[k].span # "located" => emitted[k].diag.location = None
        /\ compiled[1].output.ok => rendered[1].ok
        /\ ~compiled[1].output.ok =>
              rendered[1] = Compilation("typst compilation failed")


(***************************************************************************)
(* A chapter without fragments.                                            *)
(***************************************************************************)
\* C21: a chapter whose scan yields zero fragments (no math and no matching
\* code block, or the kinds it contains disabled) is returned byte for byte
\* unchanged and no compilation is invoked for it; convert_typst reaches the
\* package directory and the file cache only through Compiler::render
\* (lib.rs:374), so they stay as they were.
C21_NoFragmentsUnchanged ==
    FragmentEvents = <<>> =>
        /\ typst_blocks = <<>>
        /\ renders = <<>>
        /\ pc = "splice" => content = chapter.content
        /\ pc = "done" => result = Some(Ok(chapter.content))
        /\ EnvIdle

\* a chapter with inline math, math rendering disabled, and a fence of another
\* tag, code rendering enabled, has been converted
C21_Witness ==
    /\ pc = "done"
    /\ ~opts.enable_math /\ opts.enable_code
    /\ \E i \in 1..Len(chapter.events) : chapter.events[i].tag = "InlineMath"
    /\ \E i \in 1..Len(chapter.events) :
          chapter.events[i].tag = "StartFenced" /\ chapter.events[i].lang # opts.code_tag
    /\ FragmentEvents = <<>>
    /\ result = Some(Ok(chapter.content))


(***************************************************************************)
(* The date of a compilation (compiler.rs:113-119, 349-351): the clock     *)
(* advances while units are created and ask for today's date.              *)
(***************************************************************************)
\* time passes
ClockTick ==
    /\ clock < MaxClock
    /\ clock' = clock + 1
    /\ UNCHANGED todays
    /\ UNCHANGED <<package_vars, store_vars, thread_vars, resolver_vars, report_vars>>
    /\ UNCHANGED <<convert_vars, run_vars>>

\* typst asks the World of the unit for today's date (compiler.rs:349-351)
Today ==
    \E offset \in Offsets :
        /\ unit # None
        /\ Len(todays) < MaxAsks
        /\ todays' = Append(todays, [offset |-> offset, answer |-> today(unit[1], offset)])
        /\ UNCHANGED clock
        /\ UNCHANGED <<package_vars, store_vars, thread_vars, resolver_vars, report_vars>>
        /\ UNCHANGED <<convert_vars, run_vars>>

TodayInit ==
    /\ clock = 0
    /\ todays = <<>>
    /\ opts = DefaultOptions
    /\ ConvertIdle
    /\ RunIdle
    /\ PackageIdle
    /\ StoreIdle
    /\ ThreadIdle
    /\ ResolverIdle
    /\ ReportIdle

TodayNext ==
    \/ ClockTick
    \/ WrapUnit
    \/ Today

SpecToday == TodayInit /\ [][TodayNext]_vars

\* the calendar day, in days since the epoch, of an instant read on a clock
\* offset half days ahead of UTC
CivilDay(instant, offset) ==
    CHOOSE d \in 0..(MaxClock + 1) : 2 * d <= instant + offset /\ instant + offset < 2 * (d + 1)

\* C22: the timestamp is captured once, when the unit is created, and is not
\* read again: every query of today the unit answers returns the date of that
\* timestamp, the same for every offset, absent or not, however many times it
\* is asked and whatever the clock shows by then.
C22_TodayFixed ==
    \A i \in 1..Len(todays) :
        /\ unit # None
        /\ todays[i].answer = Some(CivilDay(unit[1].time.instant, unit[1].time.offset))
        /\ todays[i].answer = todays[1].answer

\* a unit was asked three times, with every offset, and the clock has passed
\* to another day since the unit was created
C22_Witness ==
    /\ Len(todays) = 3
    /\ {todays[i].offset : i \in 1..3} = Offsets
    /\ \A off \in LocalOffsets : Some(CivilDay(clock, off)) # todays[1].answer


(***************************************************************************)
(* The query of a renderer.                                                *)
(***************************************************************************)
\* C23: in query-only mode the process exits 0 if and only if the renderer
\* name is "html" and exits 1 for every other name; it reads no document
\* from standard input, converts and compiles nothing and writes no payload.
C23_QueryOnly ==
    command # None =>
        /\ exit_code # None => exit_code \in {Some(0), Some(1)}
        /\ exit_code = Some(0) <=> (exit_code # None /\ command[1].renderer = "html")
        /\ stdin # None
        /\ book = <<>> /\ item = 0
        /\ calls = <<>> /\ renders = <<>>
        /\ run_result = None
        /\ stdout = <<>>
        /\ EnvIdle

\* the query of "html" exited with 0, a book waiting unread on standard input
C23_Witness ==
    /\ command = Some(Supports("html"))
    /\ exit_code = Some(0)
    /\ stdin # None /\ stdin[1].ok /\ stdin[1].val # <<>>


(***************************************************************************)
(* The scanner as a machine of two states.                                 *)
(***************************************************************************)
\* the events the scan has consumed
Consumed == SubSeq(chapter.events, 1, next_event)

\* e opens an embedded code block: a fence of the code tag, code rendering enabled
Opens(e) == e.tag = "StartFenced" /\ e.lang = opts.code_tag /\ opts.enable_code

\* the positions in the events es of the opening events with no end of a code
\* block after them
OpenAt(es) ==
    {i \in 1..Len(es) :
        Opens(es[i]) /\ \A j \in (i + 1)..Len(es) : es[j].tag # "EndCodeBlock"}

\* e is none of the events the scanner acts on, the scanner being inside a
\* block or not
Ignored(e, inside) ==
    /\ e.tag \notin {"InlineMath", "DisplayMath"}
    /\ ~(e.tag = "StartFenced" /\ e.lang = opts.code_tag)
    /\ ~(e.tag \in {"Text", "EndCodeBlock"} /\ inside)

\* C24: after any prefix of the events the scanner is inside an embedded code
\* block if and only if a fence of the code tag was seen, code rendering
\* enabled, with no end of a code block after it, and exactly then a start
\* span is remembered; at the end of the block it is back to scanning, the
\* start span cleared and the accumulator empty; every event other than
\* inline math, display math, a fence of the code tag, a text inside the
\* block and the end of the block leaves state, accumulator and fragment list
\* as they were.
C24_ScannerState ==
    /\ [](pc \in {"scan", "splice", "done"} =>
            /\ in_typst_code_block <=> OpenAt(Consumed) # {}
            /\ in_typst_code_block <=> code_block_start # None
            /\ \A i \in OpenAt(Consumed) : code_block_start = Some(Consumed[i].span))
    /\ [][(Consuming /\ NextEv.tag = "EndCodeBlock" /\ in_typst_code_block) =>
            /\ ~in_typst_code_block'
            /\ code_block_start' = None
            /\ code_block_content' = <<>>]_vars
    /\ [][(Consuming /\ Ignored(NextEv, in_typst_code_block)) =>
            UNCHANGED <<in_typst_code_block, code_block_start, code_block_content,
                        typst_blocks>>]_vars

\* the scanner is inside an embedded code block, its text accumulated so far,
\* after a fragment was scanned and a block of another tag was passed
C24_Witness ==
    /\ pc = "scan"
    /\ in_typst_code_block
    /\ code_block_content # <<>>
    /\ Len(typst_blocks) = 1
    /\ \E i \in 1..next_event :
          chapter.events[i].tag = "StartFenced" /\ chapter.events[i].lang # opts.code_tag


(***************************************************************************)
(* The order of the fragment list.                                         *)
(***************************************************************************)
\* the events es come in document order: the starts of their spans never
\* decrease, and the texts of a code block lie inside the block's span
DocumentOrder(es) ==
    /\ \A i \in 1..(Len(es) - 1) :
          es[i + 1].tag # "EndCodeBlock" => es[i].span.start <= es[i + 1].span.start
    /\ \A i, j \in 1..Len(es) :
          (/\ i < j
           /\ es[i].tag = "StartFenced"
           /\ es[j].tag = "Text"
           /\ \A k \in (i + 1)..(j - 1) : es[k].tag # "EndCodeBlock") =>
              es[i].span.start <= es[j].span.start /\ es[j].span.end <= es[i].span.end

\* C25: for events in document order the fragment list of the scan is ordered
\* by position, its spans pairwise non-overlapping (each fragment ends where
\* the next one starts, or before), at every point of the scan and when the
\* splice takes it over, unsorted, although an embedded-code fragment is
\* appended at the end of its block only, with the start remembered from the
\* block's opening; the list holds the fragments in the order of their events.
C25_FragmentsOrdered ==
    (pc \in {"scan", "splice", "done"} /\ DocumentOrder(chapter.events)) =>
        /\ \A i \in 1..Len(typst_blocks) :
              typst_blocks[i].span.start <= typst_blocks[i].span.end
        /\ \A i \in 1..(Len(typst_blocks) - 1) :
              typst_blocks[i].span.end <= typst_blocks[i + 1].span.start
        /\ code_block_start # None =>
              \A i \in 1..Len(typst_blocks) :
                  typst_blocks[i].span.end <= code_block_start[1].start
        /\ pc # "scan" =>
              /\ Len(typst_blocks) = Len(FragmentEvents)
              /\ \A i \in 1..Len(typst_blocks) :
                    typst_blocks[i].span = FragmentEvents[i].span

\* the splice takes over three fragments, an embedded code block between two
\* math fragments
C25_Witness ==
    /\ pc = "splice"
    /\ pending = 3
    /\ Len(typst_blocks) = 3
    /\ DocumentOrder(chapter.events)
    /\ FragmentEvents[2].tag = "StartFenced"
    /\ typst_blocks[1].span.end <= typst_blocks[2].span.start
    /\ typst_blocks[2].span.end <= typst_blocks[3].span.start


(***************************************************************************)
(* The line of a fragment in the chapter's text (lib.rs:371-372).          *)
(***************************************************************************)
\* the 1-based number of the line of the text t that holds the offset pos: one
\* more than the line breaks before pos
LineOf(t, pos) == Cardinality({i \in 1..pos : t[i] = "\n"}) + 1

\* C26: the line number handed to each compilation is the 1-based number of
\* the line of the original chapter text that holds the fragment's
\* span.start, whether the fragment starts a line or starts in the middle of
\* one, whatever was spliced into the working copy before.
C26_MarkdownLine ==
    \A i \in 1..Len(renders) :
        renders[i].markdown_line = LineOf(chapter.content, renders[i].span.start)

====
